---- MODULE Spec2Model ----
(***************************************************************************)
(* Veridex Pay: the x402 negotiation of the agent (SolanaAgent.x402Fetch,  *)
(* session key flow), the merchant's paywall middleware (x402Paywall) with *)
(* its activity log, and the merchant's credential store.                  *)
(*                                                                         *)
(* USD amounts are integers counting thousandths of a dollar (mUSD): the   *)
(* tool prices $0.001, $0.002, $0.005 are 1, 2, 5 and the default limits   *)
(* $5 / $50 are 5000 / 50000.  maxAmountRequired counts millionths (the    *)
(* asset's base unit), so one mUSD is BaseUnitsPerMilliUSD base units.     *)
(***************************************************************************)
EXTENDS Integers, Sequences, FiniteSets, TLC

\* ---------------------------------------------------------------- bounds
\* x402Fetch calls issued over a run
MaxStarted == 2
\* clock ticks (hours) over a run
MaxTime == 2
\* requests of the dashboard (set, activate, revoke) and of clients other than
\* the agent's x402Fetch over a run
MaxCredOps == 3
\* requests of other clients to paywalled routes over a run
MaxLogged == 2
\* WebSocket connections the dashboard hook opens over a run
MaxOpens == 3
\* entries the dashboard hook holds over a run
MaxActivity == 2
\* the forum engine's clock at the end of a run, in units of WRITE_DELAY_MS
MaxForumClock == 28
\* heartbeat ticks of the agent loop over a run
MaxTicks == 2
\* cycles of the agent loop over a run
MaxCycles == 2

\* ------------------------------------------------------------- constants
\* 1_000_000 base units per USD, i.e. 1000 per mUSD
BaseUnitsPerMilliUSD == 1000
\* activityLog capacity
MAX_LOG == 500
\* forum engine: 150_000 ms between writes; the unit of its clock
WRITE_DELAY_MS == 1
\* forum engine: the window of 3_600_000 ms
HOUR_MS == 24
\* forum engine: the wait of 300_000 ms at an exhausted budget in phase 3
RECHECK_DELAY_MS == 2
\* forum engine: writes allowed in a window
WRITE_BUDGET == 28
\* setTimeout(connect, 3000), in seconds
ReconnectDelay == 3
\* AGENT_DAILY_LIMIT default '50'
DefaultDailyLimitUSD == 50000
\* AGENT_PER_TX_LIMIT default '5'
DefaultPerTransactionLimitUSD == 5000

\* --------------------------------------------------------------- inputs
\* the concurrent x402Fetch calls of one agent
Negs == {"n1", "n2"}
\* priceUSD of the paywalled routes the agent may fetch (0 = misconfigured)
Prices == {0, 5, 6000}
\* a route without paywall
Free == -1
Routes == Prices \cup {Free}
\* a URL of another x402 server
Foreign == -2
\* what the route's own handler answers once it runs
HandlerOutcomes == {"json200", "text200", "err500"}
\* what AgentWalletClient.signMessage yields: it throws, or returns a body
\* without signature, with an empty signature, or with a signature
SignOutcomes == {"throw", "nosig", "empty", "sig"}
\* SolanaAgentConfig limits: the defaults, and a tight budget ($0.008/day,
\* $0.005 per transaction) set through the environment
Configs ==
  { [dailyLimitUSD |-> DefaultDailyLimitUSD,
     perTransactionLimitUSD |-> DefaultPerTransactionLimitUSD, credentialId |-> c]
      : c \in BOOLEAN }
  \cup
  { [dailyLimitUSD |-> 8, perTransactionLimitUSD |-> 5, credentialId |-> c]
      : c \in BOOLEAN }

\* the URL the agent fetches, and the same resource fetched with a query
AgentUrl == "http://merchant/api/v1/tools/sol-price"
Urls == {AgentUrl, "http://merchant/api/v1/tools/sol-price?fresh=1"}

\* absent JSON members
NoNum == -1
NoStr == ""

VARIABLES
  config,         \* SolanaAgent.config
  veridexWallet,  \* SolanaAgent.veridexWallet # null
  veridexInit,    \* initVeridex still awaiting createAgentWallet
  totalSpentUSD,  \* SolanaAgent.totalSpentUSD
  session,        \* veridexWallet.currentSession.metadata
  neg,            \* the x402Fetch calls in progress, per caller: position,
                  \* locals, result; signCalls/requests/retries count its calls
                  \* of signMessage and fetch(url); cred is history, the
                  \* merchant's active credential when the limits were checked
  started,        \* x402Fetch calls issued so far
  activityLog,    \* merchant: activityLog, newest first
  credStore,      \* merchant: credStore
  credFile,       \* merchant: data/credentials.json
  credOps,        \* requests of the dashboard and of other clients handled
  reply,          \* merchant: the last such request (route, id, priceUSD of
                  \* the route, url, headers) and the response sent to it
  now,            \* Date.now(), in hours
  alert,          \* main: onSpendingAlert has been called (registered), and the
                  \* Veridex wallet holds the callback (attached)
  ws,             \* dashboard, useWebSocket: phase of the component, readyState
                  \* of wsRef.current (socket), seconds left on reconnectTimer
                  \* (timer, 0 = none pending), status, length of activity;
                  \* opens counts the calls of new WebSocket
  forum,          \* forum engine: writesThisHour, hourStart, Date.now() (clock),
                  \* the phase of run and its position in the current
                  \* iteration (pc), the end of the current sleep (wake);
                  \* checked is history, the hourStart of the window in which
                  \* checkWriteBudget last returned true in this iteration
                  \* (-1 = not yet)
  loop            \* agent loop: position of main and runCycle (pc),
                  \* state.workflowSteps, heartbeat ticks fired and cycles begun
                  \* so far (ticks, cycles);
                  \* last is history, the task or tick that ended last and how

vars == << config, veridexWallet, veridexInit, totalSpentUSD, session, neg,
           started, activityLog, credStore, credFile, credOps, reply, now,
           alert, ws, forum, loop >>

\* what the payment negotiation and the merchant leave alone
sideVars == << alert, ws, forum, loop >>

agentVars == << config, veridexWallet, veridexInit, totalSpentUSD, session, neg, started >>
storeVars == << credStore, credFile, credOps, reply >>

\* ------------------------------------------------------------ merchant

\* slip: beyond MAX_LOG the entry at the front is dropped
logActivityDropsFront(log, entry) ==
  LET full == [entry EXCEPT !.timestamp = now]
      grown == << full >> \o log
  IN IF Len(grown) > MAX_LOG THEN SubSeq(grown, 2, Len(grown)) ELSE grown

\* logActivity: unshift the entry, drop the oldest beyond MAX_LOG
logActivity(log, entry) ==
  LET full == [entry EXCEPT !.timestamp = now]
      grown == << full >> \o log
  IN IF Len(grown) > MAX_LOG THEN SubSeq(grown, 1, Len(grown) - 1) ELSE grown

Entry(type, agent, tool, amountUSD, protocol, action) ==
  [ type |-> type, agent |-> agent, tool |-> tool, amountUSD |-> amountUSD,
    protocol |-> protocol, action |-> action, timestamp |-> 0 ]

\* the request headers x402Paywall looks at, as the retry of x402Fetch sets
\* them: X-Payment-Signature carries sig.signature
Headers(sig) ==
  [ paymentSignature |-> NoStr, xPaymentSignature |-> sig,
    ucpCredential |-> NoStr, acpToken |-> NoStr ]

\* a requirement none of whose members is present; priceUSD and extraResource
\* are the members of extra
NoRequirement ==
  [ network |-> NoStr, maxAmountRequired |-> NoNum, asset |-> NoStr,
    payTo |-> NoStr, resource |-> NoStr, priceUSD |-> NoNum,
    extraResource |-> NoStr ]

\* the 402 body x402Paywall builds: { paymentRequirements: [ {...} ] }
PaywallRequirement(priceUSD, url) ==
  [ network |-> "solana-devnet",
    maxAmountRequired |-> priceUSD * BaseUnitsPerMilliUSD,
    asset |-> "USDC",
    payTo |-> "RECIPIENT",
    resource |-> NoStr,
    priceUSD |-> priceUSD,
    extraResource |-> url ]

\* req.headers['payment-signature'] || req.headers['x-payment-signature']
PaymentSig(h) ==
  IF h.paymentSignature # NoStr THEN h.paymentSignature ELSE h.xPaymentSignature

\* x402Paywall's decision: a proof header present
HasProof(h) ==
  PaymentSig(h) # NoStr \/ h.ucpCredential # NoStr \/ h.acpToken # NoStr

\* slip: the UCP credential is looked at first
ProofProtocolUcpFirst(h) ==
  IF h.ucpCredential # NoStr THEN "ucp"
  ELSE IF PaymentSig(h) # NoStr THEN "x402" ELSE "acp"

ProofProtocol(h) ==
  IF PaymentSig(h) # NoStr THEN "x402"
  ELSE IF h.ucpCredential # NoStr THEN "ucp" ELSE "acp"

\* the response of a route whose handler ran
Handled(outcome) ==
  [ status |-> IF outcome = "err500" THEN 500 ELSE 200,
    json |-> outcome = "json200",
    shape |-> "none", req |-> NoRequirement ]

Challenge(priceUSD, url) ==
  [ status |-> 402, json |-> TRUE,
    shape |-> "paymentRequirements", req |-> PaywallRequirement(priceUSD, url) ]

\* slip: a challenge is sent without being logged
PaywallLogProofOnly(log, agent, priceUSD, h) ==
  IF HasProof(h)
    THEN logActivity(log, Entry("payment", agent, "tool", priceUSD,
                                ProofProtocol(h), "verified"))
  ELSE log

\* the activity log after x402Paywall handled a request: a payment when a proof
\* header is present, else the tool call answered 402
PaywallLog(log, agent, priceUSD, h) ==
  IF HasProof(h)
    THEN logActivity(log, Entry("payment", agent, "tool", priceUSD,
                                ProofProtocol(h), "verified"))
  ELSE logActivity(log, Entry("tool_call", agent, "tool", priceUSD, "x402",
                              "402_sent"))

NoResponse ==
  [ status |-> 0, json |-> FALSE, shape |-> "none", req |-> NoRequirement ]

\* ------------------------------------------------ merchant: wire format

\* the decimal digits of a number, as bytes
RECURSIVE Digits(_)
Digits(n) ==
  IF n < 10 THEN << 48 + n >> ELSE Digits(n \div 10) \o << 48 + (n % 10) >>

\* the strings that occur as member names and values
WireStrings ==
  Urls \cup
  { "paymentRequirements", "accepts", "RECIPIENT", "solana-devnet", "USDC",
    "network", "maxAmountRequired", "asset", "payTo", "resource",
    "extra.priceUSD", "extra.resource" }

\* each string stands for its text by one byte
StrCode(str) ==
  CASE str = "paymentRequirements" -> 1
    [] str = "accepts" -> 2
    [] str = "RECIPIENT" -> 3
    [] str = AgentUrl -> 4
    [] str = "solana-devnet" -> 6
    [] str = "USDC" -> 7
    [] str = "network" -> 8
    [] str = "maxAmountRequired" -> 9
    [] str = "asset" -> 10
    [] str = "payTo" -> 11
    [] str = "resource" -> 12
    [] str = "extra.priceUSD" -> 13
    [] str = "extra.resource" -> 14
    [] OTHER -> 5

\* the string a byte stands for
CodeStr(code) == CHOOSE str \in WireStrings : StrCode(str) = code

\* a member's name in quotes and the colon
KeyBytes(key) == << 34, StrCode(key), 34, 58 >>

\* a JSON number member followed by a comma; an absent member is left out
NumBytes(key, n) ==
  IF n = NoNum THEN << >> ELSE KeyBytes(key) \o Digits(n) \o << 44 >>

\* a JSON string member in quotes followed by a comma; an absent one is left out
StrBytes(key, str) ==
  IF str = NoStr THEN << >> ELSE KeyBytes(key) \o << 34, StrCode(str), 34, 44 >>

\* a number written as a JSON string, as String(Math.round(...)) gives it
NumStrBytes(key, n) ==
  IF n = NoNum THEN << >>
  ELSE KeyBytes(key) \o << 34 >> \o Digits(n) \o << 34, 44 >>

\* JSON.stringify(paymentRequirements): the text of the 402 body, the
\* requirement inside the array of the member the body's shape names
Stringify(res) ==
  IF res.shape = "none" THEN << 123, 125 >>
  ELSE << 123 >> \o KeyBytes(res.shape) \o << 91, 123 >>
         \o StrBytes("network", res.req.network)
         \o NumStrBytes("maxAmountRequired", res.req.maxAmountRequired)
         \o StrBytes("asset", res.req.asset)
         \o StrBytes("payTo", res.req.payTo)
         \o StrBytes("resource", res.req.resource)
         \o NumBytes("extra.priceUSD", res.req.priceUSD)
         \o StrBytes("extra.resource", res.req.extraResource)
         \o << 125, 93, 125 >>

\* the number a sequence of decimal digits denotes
RECURSIVE ParseDigits(_)
ParseDigits(bytes) ==
  IF Len(bytes) = 0 THEN 0
  ELSE ParseDigits(SubSeq(bytes, 1, Len(bytes) - 1)) * 10
         + (bytes[Len(bytes)] - 48)

\* a member's value: the text between quotes for a string, else a number
ParseValue(key, val) ==
  IF val[1] = 34
    THEN IF key = "maxAmountRequired"
           THEN ParseDigits(SubSeq(val, 2, Len(val) - 1))
         ELSE CodeStr(val[2])
  ELSE ParseDigits(val)

\* the members of a requirement, read one after the other up to their commas
RECURSIVE ParseMembers(_, _)
ParseMembers(bytes, req) ==
  IF Len(bytes) = 0 THEN req
  ELSE LET key == CodeStr(bytes[2])
           end == CHOOSE k \in 5..Len(bytes) :
                    /\ bytes[k] = 44
                    /\ \A m \in 5..(k - 1) : bytes[m] # 44
           value == ParseValue(key, SubSeq(bytes, 5, end - 1))
           rest == SubSeq(bytes, end + 1, Len(bytes))
       IN ParseMembers(rest,
            CASE key = "network" -> [req EXCEPT !.network = value]
              [] key = "maxAmountRequired" -> [req EXCEPT !.maxAmountRequired = value]
              [] key = "asset" -> [req EXCEPT !.asset = value]
              [] key = "payTo" -> [req EXCEPT !.payTo = value]
              [] key = "resource" -> [req EXCEPT !.resource = value]
              [] key = "extra.priceUSD" -> [req EXCEPT !.priceUSD = value]
              [] key = "extra.resource" -> [req EXCEPT !.extraResource = value]
              [] OTHER -> req)

\* res.json() of a 402: the body parsed from its text
JsonParse(bytes) ==
  IF Len(bytes) = 2
    THEN [ NoResponse EXCEPT !.status = 402, !.json = TRUE ]
  ELSE [ status |-> 402, json |-> TRUE, shape |-> CodeStr(bytes[3]),
         req |-> ParseMembers(SubSeq(bytes, 8, Len(bytes) - 3), NoRequirement) ]

\* Buffer.from(text).toString('base64'): three bytes make four sextets, 64
\* stands for the padding character
RECURSIVE Base64Encode(_)
Base64Encode(bytes) ==
  IF Len(bytes) = 0 THEN << >>
  ELSE IF Len(bytes) = 1
    THEN LET n == bytes[1] * 65536
         IN << n \div 262144, (n \div 4096) % 64, 64, 64 >>
  ELSE IF Len(bytes) = 2
    THEN LET n == bytes[1] * 65536 + bytes[2] * 256
         IN << n \div 262144, (n \div 4096) % 64, (n \div 64) % 64, 64 >>
  ELSE LET n == bytes[1] * 65536 + bytes[2] * 256 + bytes[3]
       IN << n \div 262144, (n \div 4096) % 64, (n \div 64) % 64, n % 64 >>
            \o Base64Encode(SubSeq(bytes, 4, Len(bytes)))

\* Buffer.from(chars, 'base64'): four sextets make three bytes, less the padding
RECURSIVE Base64Decode(_)
Base64Decode(chars) ==
  IF Len(chars) < 4 THEN << >>
  ELSE LET v(i) == IF chars[i] = 64 THEN 0 ELSE chars[i]
           n == v(1) * 262144 + v(2) * 4096 + v(3) * 64 + v(4)
           bytes == << n \div 65536, (n \div 256) % 256, n % 256 >>
           keep == IF chars[3] = 64 THEN 1 ELSE IF chars[4] = 64 THEN 2 ELSE 3
       IN SubSeq(bytes, 1, keep) \o Base64Decode(SubSeq(chars, 5, Len(chars)))

\* ---------------------------------------------- merchant: credential store

\* credStore.credentials.findIndex(c => c.id === id), 0 when there is none
FindIndex(creds, id) ==
  IF \E i \in 1..Len(creds) : creds[i].id = id
    THEN CHOOSE i \in 1..Len(creds) :
           /\ creds[i].id = id
           /\ \A j \in 1..(i - 1) : creds[j].id # id
  ELSE 0

\* credStore.credentials.find(c => !c.revokedAt && c.id !== id)?.id || null
NextActiveId(creds, id) ==
  LET live == { i \in 1..Len(creds) : creds[i].revokedAt = 0 /\ creds[i].id # id }
  IN IF live = {} THEN NoStr
     ELSE creds[CHOOSE i \in live : \A j \in live : i <= j].id

\* getActiveCredentials: index of the active, non-revoked credential, else 0
getActiveCredentials(store) ==
  IF store.activeId = NoStr THEN 0
  ELSE LET i == FindIndex(store.credentials, store.activeId)
       IN IF i = 0 \/ store.credentials[i].revokedAt # 0 THEN 0 ELSE i

\* saveCredentials(store): the new content of data/credentials.json, which
\* keeps its old content when the write throws (the error is logged only);
\* the file's JSON text is represented by the store it parses to
saveCredentials(store, written) == IF written THEN store ELSE credFile

\* loadCredentials(): the store parsed from the file; a missing file is
\* represented by the empty store the function returns for it
loadCredentials(file) == file

\* no response sent yet
NoReply ==
  [ route |-> "none", id |-> NoStr, priceUSD |-> NoNum, url |-> NoStr,
    headers |-> Headers(NoStr),
    status |-> 0, newActiveId |-> NoStr, next |-> FALSE, body |-> NoResponse,
    paymentRequired |-> << >> ]

\* res.status(status).json(...) of a credential route; newActiveId is the
\* member of that name in the body of DELETE /agent/credentials
CredReply(route, id, status, newActiveId) ==
  [ NoReply EXCEPT !.route = route, !.id = id, !.status = status,
                   !.newActiveId = newActiveId ]

\* slip: the header encodes the requirement before extra.resource is filled in
PaywallReplyStaleHeader(priceUSD, url, h, outcome) ==
  IF HasProof(h)
    THEN [ NoReply EXCEPT !.route = "paywall", !.priceUSD = priceUSD, !.url = url,
                          !.headers = h, !.status = Handled(outcome).status,
                          !.next = TRUE, !.body = Handled(outcome) ]
  ELSE [ NoReply EXCEPT !.route = "paywall", !.priceUSD = priceUSD, !.url = url,
                        !.headers = h, !.status = 402,
                        !.body = Challenge(priceUSD, url),
                        !.paymentRequired =
                           Base64Encode(Stringify(Challenge(priceUSD, NoStr))) ]

\* what x402Paywall sends: with a proof header next() runs the route's handler,
\* without one the 402 with the requirement as body and as PAYMENT-REQUIRED
PaywallReply(priceUSD, url, h, outcome) ==
  IF HasProof(h)
    THEN [ NoReply EXCEPT !.route = "paywall", !.priceUSD = priceUSD, !.url = url,
                          !.headers = h, !.status = Handled(outcome).status,
                          !.next = TRUE, !.body = Handled(outcome) ]
  ELSE [ NoReply EXCEPT !.route = "paywall", !.priceUSD = priceUSD, !.url = url,
                        !.headers = h, !.status = 402,
                        !.body = Challenge(priceUSD, url),
                        !.paymentRequired =
                           Base64Encode(Stringify(Challenge(priceUSD, url))) ]

\* -------------------------------------------------------------- agent

NoResult == [ success |-> FALSE, paid |-> FALSE, attempts |-> 0, status |-> 0 ]

IdleNeg ==
  [ pc |-> "idle", route |-> Free, res |-> NoResponse, priceUSD |-> 0,
    sessionStatus |-> FALSE, dailyRemaining |-> 0, sig |-> NoStr,
    signCalls |-> 0, requests |-> 0, retries |-> 0, cred |-> NoStr,
    exit |-> "none", result |-> NoResult ]

\* the agent loop when main is about to run its initial cycle
NoLoop ==
  [ pc |-> "main", workflowSteps |-> << >>, ticks |-> 0, cycles |-> 0,
    last |-> [ task |-> "none", outcome |-> "none" ] ]

\* the forum engine when run() starts, right after the module is loaded
NoForum ==
  [ writesThisHour |-> 0, hourStart |-> 0, clock |-> 0, phase |-> 1,
    pc |-> "loop", wake |-> 0, checked |-> -1 ]

\* useWebSocket after the first render, before its effect has run
NoSocket ==
  [ phase |-> "rendered", socket |-> "none", timer |-> 0, opens |-> 0,
    status |-> "connecting", activity |-> 0 ]

\* main before solanaAgent.onSpendingAlert is called
NoAlert == [ registered |-> FALSE, attached |-> FALSE ]

Init ==
  /\ config \in Configs
  /\ veridexWallet = FALSE
  /\ veridexInit = config.credentialId
  /\ alert = NoAlert
  /\ ws = NoSocket
  /\ forum = NoForum
  /\ loop = NoLoop
  /\ totalSpentUSD = 0
  /\ session = [ dailySpentUSD |-> 0, totalSpentUSD |-> 0, transactionCount |-> 0 ]
  /\ neg = [ n \in Negs |-> IdleNeg ]
  /\ started = 0
  /\ activityLog = << >>
  /\ credStore = [ credentials |-> << >>, activeId |-> NoStr ]
  /\ credFile = [ credentials |-> << >>, activeId |-> NoStr ]
  /\ credOps = 0
  /\ reply = NoReply
  /\ now = 1

\* the agent on its default limits, without Veridex credential: the start of
\* the runs that follow the merchant alone
InitMerchant ==
  /\ Init
  /\ config = [ dailyLimitUSD |-> DefaultDailyLimitUSD,
                perTransactionLimitUSD |-> DefaultPerTransactionLimitUSD,
                credentialId |-> FALSE ]

\* x402Fetch, step 1: the initial request leaves
Start(n, route) ==
  /\ neg[n].pc \in {"idle", "done"}
  /\ started < MaxStarted
  /\ started' = started + 1
  /\ neg' = [neg EXCEPT ![n] = [IdleNeg EXCEPT !.pc = "fetching", !.route = route,
                                               !.requests = 1]]
  /\ UNCHANGED << sideVars, config, veridexWallet, veridexInit, totalSpentUSD, session,
                  activityLog, storeVars, now >>

\* initVeridex: createAgentWallet resolves, the wallet is installed
VeridexReady ==
  /\ veridexInit
  /\ veridexInit' = FALSE
  /\ veridexWallet' = TRUE
  /\ UNCHANGED << sideVars, config, totalSpentUSD, session, neg, started,
                  activityLog, storeVars, now >>

\* initVeridex: createAgentWallet rejects, the agent stays without wallet
VeridexFailed ==
  /\ veridexInit
  /\ veridexInit' = FALSE
  /\ UNCHANGED << sideVars, config, veridexWallet, totalSpentUSD, session, neg, started,
                  activityLog, storeVars, now >>

\* SolanaAgent.onSpendingAlert(callback): the callback is handed to the Veridex
\* wallet if the agent holds one at the time of the call; otherwise nothing is
\* done with it
OnSpendingAlert ==
  /\ alert' = [ registered |-> TRUE,
                attached |-> IF veridexWallet THEN TRUE ELSE alert.attached ]
  /\ UNCHANGED << ws, forum, loop, agentVars, activityLog, storeVars, now >>

\* main: new SolanaAgent(...) is followed by solanaAgent.onSpendingAlert(...)
\* in the same synchronous run, before any await
MainOnSpendingAlert ==
  /\ ~alert.registered
  /\ OnSpendingAlert

\* GET /api/v1/tools, a route without paywall: logs a discovery, then answers
FreeRoute(n, outcome) ==
  /\ neg[n].pc = "fetching"
  /\ neg[n].route = Free
  /\ activityLog' = logActivity(activityLog,
                      Entry("discovery", NoStr, NoStr, NoNum, NoStr, "tools"))
  /\ neg' = [neg EXCEPT ![n].pc = "responded", ![n].res = Handled(outcome)]
  /\ UNCHANGED << sideVars, config, veridexWallet, veridexInit, totalSpentUSD, session,
                  started, storeVars, now >>

\* x402Paywall(priceUSD, toolId) on the request a negotiation has in flight:
\* with a proof header it logs a payment and lets the route's handler answer,
\* without one it logs the tool call and answers 402 with the requirement,
\* which reaches x402Fetch as the text of the body, parsed by res.json()
x402Paywall(n, outcome) ==
  /\ neg[n].pc \in {"fetching", "retrying"}
  /\ neg[n].route \in Prices
  /\ LET h == Headers(neg[n].sig)
         priceUSD == neg[n].route
         after == IF neg[n].pc = "fetching" THEN "responded" ELSE "retried"
     IN /\ activityLog' = PaywallLog(activityLog, "agent", priceUSD, h)
        /\ IF HasProof(h)
             THEN neg' = [neg EXCEPT ![n].pc = after, ![n].res = Handled(outcome)]
             ELSE /\ outcome = "json200"
                  /\ neg' = [neg EXCEPT
                       ![n].pc = after,
                       ![n].res = JsonParse(Stringify(Challenge(priceUSD, AgentUrl)))]
  /\ UNCHANGED << sideVars, config, veridexWallet, veridexInit, totalSpentUSD, session,
                  started, storeVars, now >>

\* what another x402 server may answer: a 402 whose body has its requirement
\* under paymentRequirements, under accepts or not at all, with any of
\* extra.priceUSD, maxAmountRequired and payTo absent; a 402 whose body is not
\* JSON; or no 402
ForeignResponses ==
  { [ status |-> 402, json |-> TRUE, shape |-> sh,
      req |-> [ NoRequirement EXCEPT !.priceUSD = p, !.maxAmountRequired = a,
                                     !.payTo = t ] ] :
      sh \in {"paymentRequirements", "accepts", "none"},
      p \in {NoNum, 0, 5}, a \in {NoNum, 0, 5000, 6000000},
      t \in {NoStr, "RECIPIENT"} }
  \cup { [ NoResponse EXCEPT !.status = 402 ] }
  \cup { Handled(o) : o \in HandlerOutcomes }

\* the other server answers the request a negotiation has in flight
ForeignServer(n, res) ==
  /\ neg[n].pc \in {"fetching", "retrying"}
  /\ neg[n].route = Foreign
  /\ neg' = [neg EXCEPT ![n].pc = IF neg[n].pc = "fetching" THEN "responded"
                                  ELSE "retried",
                        ![n].res = res]
  /\ UNCHANGED << sideVars, config, veridexWallet, veridexInit, totalSpentUSD, session,
                  started, activityLog, storeVars, now >>

\* ----------------------------------------------------- x402Fetch, client

Truthy(x) == x # NoNum /\ x # 0

\* slip: only paymentRequirements is looked at
ParseRequirementFirstOnly(res) ==
  IF res.shape = "paymentRequirements" THEN res.req ELSE NoRequirement

\* paymentTerms.paymentRequirements?.[0] || paymentTerms.accepts?.[0]
ParseRequirement(res) ==
  IF res.shape \in {"paymentRequirements", "accepts"} THEN res.req ELSE NoRequirement

\* Number(req.maxAmountRequired) / 1_000_000, in mUSD
AmountToUSD(maxAmountRequired) == maxAmountRequired \div BaseUnitsPerMilliUSD

\* req?.extra?.priceUSD || (req?.maxAmountRequired ? Number(...) / 1_000_000 : 0)
PriceUSD(req) ==
  IF Truthy(req.priceUSD) THEN req.priceUSD
  ELSE IF req.maxAmountRequired # NoNum THEN AmountToUSD(req.maxAmountRequired)
  ELSE 0

\* what x402Fetch takes from the 402 body: priceUSD, recipient, network,
\* asset and maxAmount, with their defaults for absent members
Extract(res) ==
  LET req == ParseRequirement(res)
  IN [ priceUSD |-> PriceUSD(req),
       recipient |-> IF req.payTo # NoStr THEN req.payTo ELSE "unknown",
       network |-> IF req.network # NoStr THEN req.network ELSE "solana-devnet",
       asset |-> IF req.asset # NoStr THEN req.asset ELSE "USDC",
       maxAmount |-> IF req.maxAmountRequired # NoNum THEN req.maxAmountRequired
                     ELSE 0 ]

\* the paymentIntent x402Fetch serialises and hands to signMessage, as far as
\* the challenge determines it: amount is maxAmount, amountUSD the price the
\* limit checks ran on
PaymentIntent(res, priceUSD) ==
  [ network |-> Extract(res).network,
    amount |-> Extract(res).maxAmount,
    amountUSD |-> priceUSD,
    asset |-> Extract(res).asset,
    recipient |-> Extract(res).recipient ]

\* veridexWallet.getSessionStatus().remainingDailyLimitUSD
RemainingDailyLimitUSD ==
  IF session.dailySpentUSD >= config.dailyLimitUSD THEN 0
  ELSE config.dailyLimitUSD - session.dailySpentUSD

\* sessionStatus?.remainingDailyLimitUSD ?? this.config.dailyLimitUSD
DailyRemaining ==
  IF veridexWallet THEN RemainingDailyLimitUSD ELSE config.dailyLimitUSD

\* slip: the price is compared with the daily limit
ExceedsPerTxAgainstDaily(priceUSD) == priceUSD > config.dailyLimitUSD

ExceedsPerTx(priceUSD) == priceUSD > config.perTransactionLimitUSD

ExceedsDaily(priceUSD, dailyRemaining) == priceUSD > dailyRemaining

Failure402 == [ success |-> FALSE, paid |-> FALSE, attempts |-> 1, status |-> 402 ]

\* x402Fetch returns: its locals are gone, the result and the counts remain
Return(n, exit, result) ==
  [neg EXCEPT ![n] = [IdleNeg EXCEPT !.pc = "done", !.exit = exit, !.result = result,
                                     !.priceUSD = neg[n].priceUSD,
                                     !.sessionStatus = neg[n].sessionStatus,
                                     !.dailyRemaining = neg[n].dailyRemaining,
                                     !.cred = neg[n].cred,
                                     !.signCalls = neg[n].signCalls,
                                     !.requests = neg[n].requests,
                                     !.retries = neg[n].retries]]

\* the first response is not 402: returned as it is
NonPaymentResponse(n) ==
  /\ neg[n].pc = "responded"
  /\ neg[n].res.status # 402
  /\ neg' = Return(n, "non402",
              [ success |-> neg[n].res.status = 200, paid |-> FALSE, attempts |-> 1,
                status |-> neg[n].res.status ])
  /\ UNCHANGED << sideVars, config, veridexWallet, veridexInit, totalSpentUSD, session,
                  started, activityLog, storeVars, now >>

\* slip: the signer is asked before the daily limit is checked
CheckLimitsSignsFirst(n) ==
  /\ neg[n].pc = "responded"
  /\ neg[n].res.status = 402
  /\ LET priceUSD == PriceUSD(ParseRequirement(neg[n].res))
         dailyRemaining == DailyRemaining
         active == getActiveCredentials(credStore)
         checked == [neg EXCEPT ![n].priceUSD = priceUSD,
                                ![n].sessionStatus = veridexWallet,
                                ![n].dailyRemaining = dailyRemaining,
                                ![n].cred = IF active = 0 THEN NoStr
                                            ELSE credStore.activeId]
         rejected(exit) ==
           [neg EXCEPT ![n] = [IdleNeg EXCEPT !.pc = "done", !.exit = exit,
                                              !.result = Failure402,
                                              !.priceUSD = priceUSD,
                                              !.requests = neg[n].requests]]
         thrown ==
           [neg EXCEPT ![n] = [IdleNeg EXCEPT !.pc = "done", !.exit = "threw",
                                              !.requests = neg[n].requests]]
     IN neg' =
          IF ~neg[n].res.json THEN thrown
          ELSE IF ExceedsPerTx(priceUSD) THEN rejected("perTxRejected")
          ELSE IF priceUSD > 0
            THEN [checked EXCEPT ![n].pc = "signing", ![n].signCalls = @ + 1]
          ELSE rejected("failed")
  /\ UNCHANGED << sideVars, config, veridexWallet, veridexInit, totalSpentUSD, session,
                  started, activityLog, storeVars, now >>

\* steps 2-4: parse the 402 terms, check the limits, ask the signer; res.json()
\* of a body that is not JSON rejects outside any try, and x402Fetch throws
CheckLimits(n) ==
  /\ neg[n].pc = "responded"
  /\ neg[n].res.status = 402
  /\ LET priceUSD == PriceUSD(ParseRequirement(neg[n].res))
         dailyRemaining == DailyRemaining
         active == getActiveCredentials(credStore)
         checked == [neg EXCEPT ![n].priceUSD = priceUSD,
                                ![n].sessionStatus = veridexWallet,
                                ![n].dailyRemaining = dailyRemaining,
                                ![n].cred = IF active = 0 THEN NoStr
                                            ELSE credStore.activeId]
         rejected(exit) ==
           [neg EXCEPT ![n] = [IdleNeg EXCEPT !.pc = "done", !.exit = exit,
                                              !.result = Failure402,
                                              !.priceUSD = priceUSD,
                                              !.requests = neg[n].requests]]
         thrown ==
           [neg EXCEPT ![n] = [IdleNeg EXCEPT !.pc = "done", !.exit = "threw",
                                              !.requests = neg[n].requests]]
     IN neg' =
          IF ~neg[n].res.json THEN thrown
          ELSE IF ExceedsPerTx(priceUSD) THEN rejected("perTxRejected")
          ELSE IF ExceedsDaily(priceUSD, dailyRemaining) THEN rejected("dailyRejected")
          ELSE IF priceUSD > 0
            THEN [checked EXCEPT ![n].pc = "signing", ![n].signCalls = @ + 1]
          ELSE rejected("failed")
  /\ UNCHANGED << sideVars, config, veridexWallet, veridexInit, totalSpentUSD, session,
                  started, activityLog, storeVars, now >>

\* slip: a signer that throws is asked again
SignedAsksAgain(n, outcome) ==
  /\ neg[n].pc = "signing"
  /\ neg' =
       IF outcome = "throw"
         THEN [neg EXCEPT ![n].signCalls = @ + 1]
       ELSE IF outcome = "nosig"
         THEN Return(n, "failed", Failure402)
       ELSE [neg EXCEPT ![n].pc = "retrying",
                        ![n].sig = IF outcome = "sig" THEN "sig" ELSE NoStr,
                        ![n].requests = @ + 1, ![n].retries = @ + 1]
  /\ UNCHANGED << sideVars, config, veridexWallet, veridexInit, totalSpentUSD, session,
                  started, activityLog, storeVars, now >>

\* step 5: signMessage answers; with a signature the retry leaves, carrying it
Signed(n, outcome) ==
  /\ neg[n].pc = "signing"
  /\ neg' =
       IF outcome \in {"throw", "nosig"}
         THEN Return(n, "failed", Failure402)
       ELSE [neg EXCEPT ![n].pc = "retrying",
                        ![n].sig = IF outcome = "sig" THEN "sig" ELSE NoStr,
                        ![n].requests = @ + 1, ![n].retries = @ + 1]
  /\ UNCHANGED << sideVars, config, veridexWallet, veridexInit, totalSpentUSD, session,
                  started, activityLog, storeVars, now >>

\* slip: the spend is recorded before the retry's status is looked at
RetriedRecordsFirst(n) ==
  /\ neg[n].pc = "retried"
  /\ totalSpentUSD' = totalSpentUSD + neg[n].priceUSD
  /\ neg' = IF neg[n].res.status = 200 /\ neg[n].res.json
              THEN [neg EXCEPT ![n].pc = "notifying"]
            ELSE Return(n, "failed", Failure402)
  /\ UNCHANGED << sideVars, config, veridexWallet, veridexInit, session, started, activityLog,
                  storeVars, now >>

\* slip: a retry answered 402 is signed and sent again
RetriedLoops(n) ==
  /\ neg[n].pc = "retried"
  /\ IF neg[n].res.status = 200 /\ neg[n].res.json
       THEN /\ totalSpentUSD' = totalSpentUSD + neg[n].priceUSD
            /\ neg' = [neg EXCEPT ![n].pc = "notifying"]
       ELSE IF neg[n].res.status = 402
         THEN /\ neg' = [neg EXCEPT ![n].pc = "retrying", ![n].requests = @ + 1,
                                    ![n].retries = @ + 1]
              /\ UNCHANGED totalSpentUSD
       ELSE /\ neg' = Return(n, "failed", Failure402)
            /\ UNCHANGED totalSpentUSD
  /\ UNCHANGED << sideVars, config, veridexWallet, veridexInit, session, started, activityLog,
                  storeVars, now >>

\* the retry is answered: if ok and its body parses, the spend is recorded and
\* the merchant dashboard is notified; otherwise the call fails
Retried(n) ==
  /\ neg[n].pc = "retried"
  /\ IF neg[n].res.status = 200 /\ neg[n].res.json
       THEN /\ totalSpentUSD' = totalSpentUSD + neg[n].priceUSD
            /\ session' =
                 IF veridexWallet
                   THEN [ dailySpentUSD |-> session.dailySpentUSD + neg[n].priceUSD,
                          totalSpentUSD |-> session.totalSpentUSD + neg[n].priceUSD,
                          transactionCount |-> session.transactionCount + 1 ]
                 ELSE session
            /\ neg' = [neg EXCEPT ![n].pc = "notifying"]
       ELSE /\ neg' = Return(n, "failed", Failure402)
            /\ UNCHANGED << totalSpentUSD, session >>
  /\ UNCHANGED << sideVars, config, veridexWallet, veridexInit, started, activityLog,
                  storeVars, now >>

\* slip: a notification that fails fails the call
NotifiedOrFailed(n, delivered) ==
  /\ neg[n].pc = "notifying"
  /\ activityLog' =
       IF delivered
         THEN logActivity(activityLog,
                Entry("payment", "veridex-solana-agent", "tool", neg[n].priceUSD,
                      "x402", "verified"))
       ELSE activityLog
  /\ neg' = IF delivered
              THEN Return(n, "settled",
                     [ success |-> TRUE, paid |-> TRUE, attempts |-> 2,
                       status |-> neg[n].res.status ])
            ELSE Return(n, "failed", Failure402)
  /\ UNCHANGED << sideVars, config, veridexWallet, veridexInit, totalSpentUSD, session,
                  started, storeVars, now >>

\* POST /api/v1/activity reaches the merchant (delivered) or not; either way
\* x402Fetch returns the settled result
Notified(n, delivered) ==
  /\ neg[n].pc = "notifying"
  /\ activityLog' =
       IF delivered
         THEN logActivity(activityLog,
                Entry("payment", "veridex-solana-agent", "tool", neg[n].priceUSD,
                      "x402", "verified"))
       ELSE activityLog
  /\ neg' = Return(n, "settled",
              [ success |-> TRUE, paid |-> TRUE, attempts |-> 2,
                status |-> neg[n].res.status ])
  /\ UNCHANGED << sideVars, config, veridexWallet, veridexInit, totalSpentUSD, session,
                  started, storeVars, now >>

NegotiationNext ==
  \/ VeridexReady
  \/ VeridexFailed
  \/ \E n \in Negs, r \in Routes : Start(n, r)
  \/ \E n \in Negs, o \in HandlerOutcomes : FreeRoute(n, o)
  \/ \E n \in Negs, o \in HandlerOutcomes : x402Paywall(n, o)
  \/ \E n \in Negs : NonPaymentResponse(n)
  \/ \E n \in Negs : CheckLimits(n)
  \/ \E n \in Negs, o \in SignOutcomes : Signed(n, o)
  \/ \E n \in Negs : Retried(n)
  \/ \E n \in Negs, d \in BOOLEAN : Notified(n, d)

\* ---------------------------------------------------------- x402DryRun

\* what the AgentWallet proxy answers to a dry run: the X402FetchResult of the
\* preview, for a paid and for a free resource
DryRunResults ==
  { [ success |-> TRUE, paid |-> FALSE, attempts |-> 1, status |-> 402 ],
    [ success |-> TRUE, paid |-> FALSE, attempts |-> 1, status |-> 200 ] }

\* x402DryRun: the call goes to awClient.x402Fetch with dryRun: true, a POST
\* to the proxy
DryRun(n) ==
  /\ neg[n].pc \in {"idle", "done"}
  /\ neg' = [neg EXCEPT ![n] = [IdleNeg EXCEPT !.pc = "dryRun"]]
  /\ UNCHANGED << sideVars, config, veridexWallet, veridexInit, totalSpentUSD, session,
                  started, activityLog, storeVars, now >>

\* slip: the previewed price is added to the running total
DryRunAnsweredRecords(n, ok, result) ==
  /\ neg[n].pc = "dryRun"
  /\ neg' = [neg EXCEPT ![n] =
               IF ok THEN [IdleNeg EXCEPT !.pc = "done", !.exit = "dryRun",
                                          !.result = result]
               ELSE [IdleNeg EXCEPT !.pc = "done", !.exit = "threw"]]
  /\ totalSpentUSD' = IF ok THEN totalSpentUSD + 5 ELSE totalSpentUSD
  /\ UNCHANGED << sideVars, config, veridexWallet, veridexInit, session,
                  started, activityLog, storeVars, now >>

\* request() of the proxy call ends: its JSON is returned to the caller of
\* x402DryRun, a response that is not ok makes it throw
DryRunAnswered(n, ok, result) ==
  /\ neg[n].pc = "dryRun"
  /\ neg' = [neg EXCEPT ![n] =
               IF ok THEN [IdleNeg EXCEPT !.pc = "done", !.exit = "dryRun",
                                          !.result = result]
               ELSE [IdleNeg EXCEPT !.pc = "done", !.exit = "threw"]]
  /\ UNCHANGED << sideVars, config, veridexWallet, veridexInit, totalSpentUSD, session,
                  started, activityLog, storeVars, now >>

\* ------------------------------------- merchant: credential operations

\* slip: an update refreshes createdAt but keeps the stored session
SetCredentialsKeepsSession(id, publicKey, limits, written) ==
  /\ credOps < MaxCredOps
  /\ credOps' = credOps + 1
  /\ IF id = NoStr \/ publicKey = NoStr
       THEN /\ reply' = CredReply("set", id, 400, NoStr)
            /\ UNCHANGED << credStore, credFile, activityLog >>
       ELSE LET existing == FindIndex(credStore.credentials, id)
                cred == [ id |-> id, createdAt |-> now, revokedAt |-> 0,
                          dailyLimitUSD |-> limits.dailyLimitUSD,
                          perTransactionLimitUSD |-> limits.perTransactionLimitUSD,
                          expiryHours |-> limits.expiryHours ]
                creds == IF existing > 0
                           THEN [credStore.credentials EXCEPT
                                   ![existing].createdAt = now,
                                   ![existing].revokedAt = 0]
                         ELSE Append(credStore.credentials, cred)
                store == [ credentials |-> creds, activeId |-> id ]
            IN /\ credStore' = store
               /\ credFile' = saveCredentials(store, written)
               /\ activityLog' = logActivity(activityLog,
                    Entry("discovery", "human", NoStr, limits.dailyLimitUSD, NoStr,
                          "credentials_set"))
               /\ reply' = CredReply("set", id, 200, NoStr)
  /\ UNCHANGED << sideVars, agentVars, now >>

\* slip: only the wallet identifier is required
SetCredentialsWithoutKey(id, publicKey, limits, written) ==
  /\ credOps < MaxCredOps
  /\ credOps' = credOps + 1
  /\ IF id = NoStr
       THEN /\ reply' = CredReply("set", id, 400, NoStr)
            /\ UNCHANGED << credStore, credFile, activityLog >>
       ELSE LET existing == FindIndex(credStore.credentials, id)
                cred == [ id |-> id, createdAt |-> now, revokedAt |-> 0,
                          dailyLimitUSD |-> limits.dailyLimitUSD,
                          perTransactionLimitUSD |-> limits.perTransactionLimitUSD,
                          expiryHours |-> limits.expiryHours ]
                creds == IF existing > 0
                           THEN [credStore.credentials EXCEPT ![existing] = cred]
                         ELSE Append(credStore.credentials, cred)
                store == [ credentials |-> creds, activeId |-> id ]
            IN /\ credStore' = store
               /\ credFile' = saveCredentials(store, written)
               /\ activityLog' = logActivity(activityLog,
                    Entry("discovery", "human", NoStr, limits.dailyLimitUSD, NoStr,
                          "credentials_set"))
               /\ reply' = CredReply("set", id, 200, NoStr)
  /\ UNCHANGED << sideVars, agentVars, now >>

\* slip: a credential with a new identifier replaces the stored ones
SetCredentialsReplacesStore(id, publicKey, limits, written) ==
  /\ credOps < MaxCredOps
  /\ credOps' = credOps + 1
  /\ IF id = NoStr \/ publicKey = NoStr
       THEN /\ reply' = CredReply("set", id, 400, NoStr)
            /\ UNCHANGED << credStore, credFile, activityLog >>
       ELSE LET existing == FindIndex(credStore.credentials, id)
                cred == [ id |-> id, createdAt |-> now, revokedAt |-> 0,
                          dailyLimitUSD |-> limits.dailyLimitUSD,
                          perTransactionLimitUSD |-> limits.perTransactionLimitUSD,
                          expiryHours |-> limits.expiryHours ]
                creds == IF existing > 0
                           THEN [credStore.credentials EXCEPT ![existing] = cred]
                         ELSE << cred >>
                store == [ credentials |-> creds, activeId |-> id ]
            IN /\ credStore' = store
               /\ credFile' = saveCredentials(store, written)
               /\ activityLog' = logActivity(activityLog,
                    Entry("discovery", "human", NoStr, limits.dailyLimitUSD, NoStr,
                          "credentials_set"))
               /\ reply' = CredReply("set", id, 200, NoStr)
  /\ UNCHANGED << sideVars, agentVars, now >>

\* slip: the credential is pushed whether or not its identifier is stored
SetCredentialsAlwaysPushes(id, publicKey, limits, written) ==
  /\ credOps < MaxCredOps
  /\ credOps' = credOps + 1
  /\ IF id = NoStr \/ publicKey = NoStr
       THEN /\ reply' = CredReply("set", id, 400, NoStr)
            /\ UNCHANGED << credStore, credFile, activityLog >>
       ELSE LET cred == [ id |-> id, createdAt |-> now, revokedAt |-> 0,
                          dailyLimitUSD |-> limits.dailyLimitUSD,
                          perTransactionLimitUSD |-> limits.perTransactionLimitUSD,
                          expiryHours |-> limits.expiryHours ]
                creds == Append(credStore.credentials, cred)
                store == [ credentials |-> creds, activeId |-> id ]
            IN /\ credStore' = store
               /\ credFile' = saveCredentials(store, written)
               /\ activityLog' = logActivity(activityLog,
                    Entry("discovery", "human", NoStr, limits.dailyLimitUSD, NoStr,
                          "credentials_set"))
               /\ reply' = CredReply("set", id, 200, NoStr)
  /\ UNCHANGED << sideVars, agentVars, now >>

\* POST /api/v1/agent/credentials
SetCredentials(id, publicKey, limits, written) ==
  /\ credOps < MaxCredOps
  /\ credOps' = credOps + 1
  /\ IF id = NoStr \/ publicKey = NoStr
       THEN /\ reply' = CredReply("set", id, 400, NoStr)
            /\ UNCHANGED << credStore, credFile, activityLog >>
       ELSE LET existing == FindIndex(credStore.credentials, id)
                cred == [ id |-> id, createdAt |-> now, revokedAt |-> 0,
                          dailyLimitUSD |-> limits.dailyLimitUSD,
                          perTransactionLimitUSD |-> limits.perTransactionLimitUSD,
                          expiryHours |-> limits.expiryHours ]
                creds == IF existing > 0
                           THEN [credStore.credentials EXCEPT ![existing] = cred]
                         ELSE Append(credStore.credentials, cred)
                store == [ credentials |-> creds, activeId |-> id ]
            IN /\ credStore' = store
               /\ credFile' = saveCredentials(store, written)
               /\ activityLog' = logActivity(activityLog,
                    Entry("discovery", "human", NoStr, limits.dailyLimitUSD, NoStr,
                          "credentials_set"))
               /\ reply' = CredReply("set", id, 200, NoStr)
  /\ UNCHANGED << sideVars, agentVars, now >>

\* slip: the revocation time is not looked at
ActivateAnyStored(id, written) ==
  /\ credOps < MaxCredOps
  /\ credOps' = credOps + 1
  /\ LET i == FindIndex(credStore.credentials, id)
     IN IF i = 0
          THEN /\ reply' = CredReply("activate", id, 404, NoStr)
               /\ UNCHANGED << credStore, credFile >>
        ELSE LET store == [credStore EXCEPT !.activeId = id]
             IN /\ credStore' = store
                /\ credFile' = saveCredentials(store, written)
                /\ reply' = CredReply("activate", id, 200, NoStr)
  /\ UNCHANGED << sideVars, agentVars, activityLog, now >>

\* PUT /api/v1/agent/credentials/:id/activate
Activate(id, written) ==
  /\ credOps < MaxCredOps
  /\ credOps' = credOps + 1
  /\ LET i == FindIndex(credStore.credentials, id)
     IN IF i = 0
          THEN /\ reply' = CredReply("activate", id, 404, NoStr)
               /\ UNCHANGED << credStore, credFile >>
        ELSE IF credStore.credentials[i].revokedAt # 0
          THEN /\ reply' = CredReply("activate", id, 400, NoStr)
               /\ UNCHANGED << credStore, credFile >>
        ELSE LET store == [credStore EXCEPT !.activeId = id]
             IN /\ credStore' = store
                /\ credFile' = saveCredentials(store, written)
                /\ reply' = CredReply("activate", id, 200, NoStr)
  /\ UNCHANGED << sideVars, agentVars, activityLog, now >>

\* DELETE /api/v1/agent/credentials
RevokeActive(written) ==
  /\ credOps < MaxCredOps
  /\ credOps' = credOps + 1
  /\ LET i == getActiveCredentials(credStore)
     IN IF i = 0
          THEN /\ reply' = CredReply("revokeActive", NoStr, 404, NoStr)
               /\ UNCHANGED << credStore, credFile, activityLog >>
          ELSE LET creds == [credStore.credentials EXCEPT ![i].revokedAt = now]
                   store == [ credentials |-> creds,
                              activeId |-> NextActiveId(creds, creds[i].id) ]
               IN /\ credStore' = store
                  /\ credFile' = saveCredentials(store, written)
                  /\ activityLog' = logActivity(activityLog,
                       Entry("discovery", "human", NoStr, NoNum, NoStr,
                             "credentials_revoked"))
                  /\ reply' = CredReply("revokeActive", creds[i].id, 200,
                                        store.activeId)
  /\ UNCHANGED << sideVars, agentVars, now >>

\* slip: a new active credential is elected whichever credential is revoked
RevokeAlwaysElects(id, written) ==
  /\ credOps < MaxCredOps
  /\ credOps' = credOps + 1
  /\ LET i == FindIndex(credStore.credentials, id)
     IN IF i = 0
          THEN /\ reply' = CredReply("revoke", id, 404, NoStr)
               /\ UNCHANGED << credStore, credFile >>
          ELSE LET creds == [credStore.credentials EXCEPT ![i].revokedAt = now]
                   store == [ credentials |-> creds,
                              activeId |-> NextActiveId(creds, id) ]
               IN /\ credStore' = store
                  /\ credFile' = saveCredentials(store, written)
                  /\ reply' = CredReply("revoke", id, 200, NoStr)
  /\ UNCHANGED << sideVars, agentVars, activityLog, now >>

\* slip: revoking the active credential leaves the active id as it is
RevokeKeepsActiveId(id, written) ==
  /\ credOps < MaxCredOps
  /\ credOps' = credOps + 1
  /\ LET i == FindIndex(credStore.credentials, id)
     IN IF i = 0
          THEN /\ reply' = CredReply("revoke", id, 404, NoStr)
               /\ UNCHANGED << credStore, credFile >>
          ELSE LET creds == [credStore.credentials EXCEPT ![i].revokedAt = now]
                   store == [ credentials |-> creds,
                              activeId |-> credStore.activeId ]
               IN /\ credStore' = store
                  /\ credFile' = saveCredentials(store, written)
                  /\ reply' = CredReply("revoke", id, 200, NoStr)
  /\ UNCHANGED << sideVars, agentVars, activityLog, now >>

\* DELETE /api/v1/agent/credentials/:id
Revoke(id, written) ==
  /\ credOps < MaxCredOps
  /\ credOps' = credOps + 1
  /\ LET i == FindIndex(credStore.credentials, id)
     IN IF i = 0
          THEN /\ reply' = CredReply("revoke", id, 404, NoStr)
               /\ UNCHANGED << credStore, credFile >>
          ELSE LET creds == [credStore.credentials EXCEPT ![i].revokedAt = now]
                   store == [ credentials |-> creds,
                              activeId |-> IF credStore.activeId = id
                                             THEN NextActiveId(creds, id)
                                           ELSE credStore.activeId ]
               IN /\ credStore' = store
                  /\ credFile' = saveCredentials(store, written)
                  /\ reply' = CredReply("revoke", id, 200, NoStr)
  /\ UNCHANGED << sideVars, agentVars, activityLog, now >>

\* an hour passes
Tick ==
  /\ now <= MaxTime
  /\ now' = now + 1
  /\ UNCHANGED << sideVars, agentVars, activityLog, storeVars >>

\* the merchant process is restarted: credStore = loadCredentials() runs
\* again, the activity log starts empty
Restart ==
  /\ credStore' = loadCredentials(credFile)
  /\ activityLog' = << >>
  /\ reply' = NoReply
  /\ UNCHANGED << sideVars, agentVars, credFile, credOps, now >>

\* wallet.credentialId values the human submits ("" = missing)
CredIds == {"c1", "c2"}
\* session limits the human submits (setup page defaults, and a tight budget)
SessionInputs ==
  { [ dailyLimitUSD |-> DefaultDailyLimitUSD,
      perTransactionLimitUSD |-> DefaultPerTransactionLimitUSD, expiryHours |-> 1 ],
    [ dailyLimitUSD |-> 8, perTransactionLimitUSD |-> 5, expiryHours |-> 1 ] }

\* the human's requests, every write of data/credentials.json succeeding
CredentialNext ==
  \/ \E id \in CredIds \cup {NoStr}, pk \in {"pk", NoStr}, l \in SessionInputs :
       SetCredentials(id, pk, l, TRUE)
  \/ \E id \in CredIds : Activate(id, TRUE)
  \/ RevokeActive(TRUE)
  \/ \E id \in CredIds : Revoke(id, TRUE)
  \/ Tick

\* data/credentials.json as an earlier run of the merchant left it: c1 set, an
\* hour later c2 set
LoadedStore ==
  [ credentials |->
      << [ id |-> "c1", createdAt |-> 0, revokedAt |-> 0,
           dailyLimitUSD |-> DefaultDailyLimitUSD,
           perTransactionLimitUSD |-> DefaultPerTransactionLimitUSD,
           expiryHours |-> 1 ],
         [ id |-> "c2", createdAt |-> 1, revokedAt |-> 0,
           dailyLimitUSD |-> DefaultDailyLimitUSD,
           perTransactionLimitUSD |-> DefaultPerTransactionLimitUSD,
           expiryHours |-> 1 ] >>,
    activeId |-> "c2" ]

\* the merchant starts on that file: credStore = loadCredentials()
InitLoaded ==
  /\ config = [ dailyLimitUSD |-> DefaultDailyLimitUSD,
                perTransactionLimitUSD |-> DefaultPerTransactionLimitUSD,
                credentialId |-> FALSE ]
  /\ veridexWallet = FALSE
  /\ veridexInit = config.credentialId
  /\ alert = NoAlert
  /\ ws = NoSocket
  /\ forum = NoForum
  /\ loop = NoLoop
  /\ totalSpentUSD = 0
  /\ session = [ dailySpentUSD |-> 0, totalSpentUSD |-> 0, transactionCount |-> 0 ]
  /\ neg = [ n \in Negs |-> IdleNeg ]
  /\ started = 0
  /\ activityLog = << >>
  /\ credStore = LoadedStore
  /\ credFile = LoadedStore
  /\ credOps = 0
  /\ reply = NoReply
  /\ now = 1

\* the stored ids and one more
StoredIds == CredIds \cup {"c3"}
\* the setup page's default session
DefaultSession ==
  [ dailyLimitUSD |-> DefaultDailyLimitUSD,
    perTransactionLimitUSD |-> DefaultPerTransactionLimitUSD, expiryHours |-> 1 ]

\* the human's operations on a store that holds several credentials
ElectNext ==
  \/ \E id \in StoredIds : SetCredentials(id, "pk", DefaultSession, TRUE)
  \/ \E id \in StoredIds : Activate(id, TRUE)
  \/ RevokeActive(TRUE)
  \/ \E id \in StoredIds : Revoke(id, TRUE)
  \/ Tick

\* the human's operations, each write of data/credentials.json succeeding or
\* throwing (read-only or full disk), and restarts of the merchant
RestartNext ==
  \/ \E id \in CredIds, w \in BOOLEAN : SetCredentials(id, "pk", DefaultSession, w)
  \/ \E id \in CredIds, w \in BOOLEAN : Activate(id, w)
  \/ \E w \in BOOLEAN : RevokeActive(w)
  \/ \E id \in CredIds, w \in BOOLEAN : Revoke(id, w)
  \/ Tick
  \/ Restart

\* x402Paywall(priceUSD, toolId) on the request of a client other than the
\* agent's x402Fetch, with whatever proof headers it carries
PaywallRequest(priceUSD, url, h, outcome) ==
  /\ credOps < MaxLogged
  /\ credOps' = credOps + 1
  /\ HasProof(h) \/ outcome = "json200"
  /\ activityLog' = PaywallLog(activityLog, "unknown", priceUSD, h)
  /\ reply' = PaywallReply(priceUSD, url, h, outcome)
  /\ UNCHANGED << sideVars, agentVars, credStore, credFile, now >>

\* POST /api/v1/activity by any client: an entry without type is refused, any
\* other is logged as it was sent
PostActivity(type, agent, amountUSD) ==
  /\ credOps < MaxLogged
  /\ credOps' = credOps + 1
  /\ IF type = NoStr
       THEN /\ reply' = CredReply("activity", NoStr, 400, NoStr)
            /\ UNCHANGED activityLog
       ELSE /\ activityLog' = logActivity(activityLog,
                 Entry(type, agent, NoStr, amountUSD, NoStr, NoStr))
            /\ reply' = CredReply("activity", NoStr, 200, NoStr)
  /\ UNCHANGED << sideVars, agentVars, credStore, credFile, now >>

\* the activity log one entry short of MAX_LOG: entries clients posted during
\* the hour before, the oldest, at the end, carrying amount 1, the newest
\* amount MAX_LOG - 1
NearlyFullLog ==
  [ i \in 1..(MAX_LOG - 1) |->
      [ Entry("discovery", "unknown", NoStr, MAX_LOG - i, NoStr, NoStr)
          EXCEPT !.timestamp = 0 ] ]

\* the merchant after MAX_LOG - 1 logged events
InitLog ==
  /\ config = [ dailyLimitUSD |-> DefaultDailyLimitUSD,
                perTransactionLimitUSD |-> DefaultPerTransactionLimitUSD,
                credentialId |-> FALSE ]
  /\ veridexWallet = FALSE
  /\ veridexInit = config.credentialId
  /\ alert = NoAlert
  /\ ws = NoSocket
  /\ forum = NoForum
  /\ loop = NoLoop
  /\ totalSpentUSD = 0
  /\ session = [ dailySpentUSD |-> 0, totalSpentUSD |-> 0, transactionCount |-> 0 ]
  /\ neg = [ n \in Negs |-> IdleNeg ]
  /\ started = 0
  /\ activityLog = NearlyFullLog
  /\ credStore = [ credentials |-> << >>, activeId |-> NoStr ]
  /\ credFile = [ credentials |-> << >>, activeId |-> NoStr ]
  /\ credOps = 0
  /\ reply = NoReply
  /\ now = 1

\* events logged on a log that is about to be full: posted entries, paywall
\* requests with and without proof, while time passes
LogNext ==
  \/ \E t \in {NoStr, "payment", "discovery"}, a \in {NoNum, 5} :
       PostActivity(t, "veridex-solana-agent", a)
  \/ \E p \in Prices, h \in {Headers(NoStr), Headers("sig")} :
       PaywallRequest(p, AgentUrl, h, "json200")
  \/ Tick

\* the proof headers a request may carry: a payment signature under either
\* header name, a UCP credential, an ACP token
HeaderSets ==
  { h \in [ paymentSignature : {NoStr, "sig"}, xPaymentSignature : {NoStr, "sig"},
            ucpCredential : {NoStr, "ucp"}, acpToken : {NoStr, "acp"} ] :
      h.paymentSignature = NoStr \/ h.xPaymentSignature = NoStr }

PaywallNext ==
  \E p \in Prices, u \in Urls, h \in HeaderSets, o \in {"json200", "err500"} :
    PaywallRequest(p, u, h, o)

\* the agent calls x402Fetch once, for a URL of another server
StartForeign == started = 0 /\ Start("n1", Foreign)

\* one negotiation with another x402 server
ChallengeNext ==
  \/ StartForeign
  \/ \E res \in ForeignResponses : ForeignServer("n1", res)
  \/ NonPaymentResponse("n1")
  \/ CheckLimits("n1")
  \/ \E o \in SignOutcomes : Signed("n1", o)
  \/ Retried("n1")
  \/ \E d \in BOOLEAN : Notified("n1", d)

\* the agent calls x402Fetch once, for the $0.005 tool
StartOne == started = 0 /\ Start("n1", 5)

\* one negotiation, while the human sets and revokes one credential and time
\* passes
RevokeNext ==
  \/ StartOne
  \/ \E o \in HandlerOutcomes : x402Paywall("n1", o)
  \/ CheckLimits("n1")
  \/ \E o \in SignOutcomes : Signed("n1", o)
  \/ Retried("n1")
  \/ \E d \in BOOLEAN : Notified("n1", d)
  \/ \E l \in SessionInputs : SetCredentials("c1", "pk", l, TRUE)
  \/ Activate("c1", TRUE)
  \/ RevokeActive(TRUE)
  \/ Revoke("c1", TRUE)
  \/ Tick

\* one negotiation for the $0.005 tool, and dry runs by either caller
DryRunNext ==
  \/ StartOne
  \/ VeridexReady
  \/ VeridexFailed
  \/ \E o \in HandlerOutcomes : x402Paywall("n1", o)
  \/ CheckLimits("n1")
  \/ \E o \in SignOutcomes : Signed("n1", o)
  \/ Retried("n1")
  \/ \E d \in BOOLEAN : Notified("n1", d)
  \/ \E n \in Negs : DryRun(n)
  \/ \E n \in Negs, ok \in BOOLEAN, r \in DryRunResults : DryRunAnswered(n, ok, r)

\* ------------------------------------------------- dashboard, useWebSocket
\* connect(): nothing if the current socket is open, else a new WebSocket
\* replaces it
connect(w) ==
  IF w.socket = "OPEN"
    THEN w
    ELSE [w EXCEPT !.status = "connecting", !.socket = "CONNECTING",
                   !.opens = @ + 1]

\* the hook's state changes, everything else stays
HookStep(w) ==
  /\ ws' = w
  /\ UNCHANGED << alert, forum, loop, agentVars, activityLog, storeVars, now >>

\* useEffect runs after the first render: connect()
HookMount ==
  /\ ws.phase = "rendered"
  /\ HookStep(connect([ws EXCEPT !.phase = "mounted"]))

\* ws.onopen
WsOpened ==
  /\ ws.socket = "CONNECTING"
  /\ HookStep([ws EXCEPT !.socket = "OPEN", !.status = "connected"])

\* ws.onerror: ws.close()
WsErrored ==
  /\ ws.socket \in {"CONNECTING", "OPEN"}
  /\ HookStep([ws EXCEPT !.socket = "CLOSING"])

\* ws.onclose, after the server closed the connection or after close() was
\* called: the status is set and connect is scheduled
WsClosed ==
  /\ ws.socket \in {"OPEN", "CLOSING"}
  /\ HookStep([ws EXCEPT !.socket = "CLOSED", !.status = "disconnected",
                         !.timer = ReconnectDelay])

\* ws.onmessage on the open socket: an init message with an array replaces
\* the activity, an activity or proof message with an entry is put in front,
\* any other message is ignored
WsMessage(type, payload, len) ==
  /\ ws.socket = "OPEN"
  /\ IF type = "init" /\ payload
       THEN HookStep([ws EXCEPT !.activity = len])
       ELSE IF type \in {"activity", "proof"} /\ payload
         THEN /\ ws.activity < MaxActivity
              /\ HookStep([ws EXCEPT !.activity = @ + 1])
         ELSE HookStep(ws)

\* a second passes on the pending reconnect timer; when it runs out, connect()
WsSecond ==
  /\ ws.timer > 0
  /\ IF ws.timer = 1
       THEN /\ ws.opens < MaxOpens
            /\ HookStep(connect([ws EXCEPT !.timer = 0]))
       ELSE HookStep([ws EXCEPT !.timer = @ - 1])

\* the effect's cleanup at unmount: clearTimeout(reconnectTimer.current),
\* wsRef.current?.close()
HookCleanup ==
  /\ ws.phase = "mounted"
  /\ HookStep([ws EXCEPT !.phase = "unmounted", !.timer = 0,
                         !.socket = IF @ \in {"CONNECTING", "OPEN"}
                                      THEN "CLOSING" ELSE @])

\* the hook from its first render to after its unmount
HookNext ==
  \/ HookMount
  \/ WsOpened
  \/ WsErrored
  \/ WsClosed
  \/ \E t \in {"init", "activity", "proof", "ping"}, p \in BOOLEAN,
        l \in 0..MaxActivity : WsMessage(t, p, l)
  \/ WsSecond
  \/ HookCleanup

\* ------------------------------------------------------------ forum engine
\* slip: the window is renewed as soon as one hour has passed
checkWriteBudgetRenewsAtHour(f) ==
  IF f.clock - f.hourStart >= HOUR_MS
    THEN [f EXCEPT !.writesThisHour = 0, !.hourStart = f.clock]
    ELSE f

\* checkWriteBudget, its effect: after more than one hour the counter is reset
\* and a new window starts
checkWriteBudget(f) ==
  IF f.clock - f.hourStart > HOUR_MS
    THEN [f EXCEPT !.writesThisHour = 0, !.hourStart = f.clock]
    ELSE f

\* checkWriteBudget, its result
HasBudget(f) == f.writesThisHour < WRITE_BUDGET

\* recordWrite
recordWrite(f) == [f EXCEPT !.writesThisHour = @ + 1]

\* sleep(ms) begins
Sleep(f, ms, then) == [f EXCEPT !.pc = then, !.wake = f.clock + ms]

\* the engine's state changes, everything else stays
ForumStep(f) ==
  /\ forum' = f
  /\ UNCHANGED << alert, ws, loop, agentVars, activityLog, storeVars, now >>

\* the top of an iteration of a write loop: checkWriteBudget. With budget,
\* phase 1 posts at once and phases 2 and 3 first generate the text; without,
\* phase 1 sleeps and goes on to the next post, phase 2 leaves the inner loop,
\* phase 3 sleeps five minutes and checks again
ForumCheck ==
  /\ forum.pc = "loop"
  /\ LET f == checkWriteBudget(forum)
     IN IF HasBudget(f)
          THEN ForumStep([f EXCEPT !.checked = f.hourStart,
                                   !.pc = IF f.phase = 1 THEN "writing"
                                                         ELSE "generating"])
          ELSE IF f.phase = 1
            THEN ForumStep(Sleep([f EXCEPT !.checked = -1], WRITE_DELAY_MS, "sleeping"))
            ELSE IF f.phase = 2
              THEN ForumStep([f EXCEPT !.checked = -1])
              ELSE ForumStep(Sleep([f EXCEPT !.checked = -1], RECHECK_DELAY_MS, "waiting"))

\* generateReplyWithAI, generateCommentWithAI: a text, or none and the
\* iteration ends
ForumGenerated(text) ==
  /\ forum.pc = "generating"
  /\ ForumStep([forum EXCEPT !.pc = IF text THEN "writing" ELSE "loop",
                             !.checked = IF text THEN @ ELSE -1])

\* the POST of the write returns: with the created post or comment the write
\* is recorded; with or without it the engine sleeps WRITE_DELAY_MS; if it
\* threw, the iteration ends
ForumWritten(outcome) ==
  /\ forum.pc = "writing"
  /\ IF outcome = "created"
       THEN ForumStep(Sleep(recordWrite(forum), WRITE_DELAY_MS, "sleeping"))
       ELSE IF outcome = "null"
         THEN ForumStep(Sleep(forum, WRITE_DELAY_MS, "sleeping"))
         ELSE ForumStep([forum EXCEPT !.pc = "loop", !.checked = -1])

\* a sleep is over. After the sleep that ends an iteration the loop goes on;
\* after the five minutes of phase 3 checkWriteBudget runs again and, still
\* without budget, the comments stop
ForumSlept ==
  /\ forum.pc \in {"sleeping", "waiting"}
  /\ forum.clock >= forum.wake
  /\ IF forum.pc = "sleeping"
       THEN ForumStep([forum EXCEPT !.pc = "loop", !.checked = -1])
       ELSE LET f == checkWriteBudget(forum)
            IN IF HasBudget(f)
                 THEN ForumStep([f EXCEPT !.checked = f.hourStart,
                                          !.pc = "generating"])
                 ELSE ForumStep([f EXCEPT !.pc = "done"])

\* the items of a phase are used up (or the phase is skipped, or maxComments
\* is reached): the next phase begins, after phase 3 the run ends
ForumPhaseEnds ==
  /\ forum.pc = "loop"
  /\ ForumStep([forum EXCEPT !.phase = IF @ < 3 THEN @ + 1 ELSE @,
                             !.pc = IF forum.phase < 3 THEN "loop" ELSE "done",
                             !.checked = -1])

\* time passes while the engine awaits a reply or sleeps
ForumTime ==
  /\ forum.pc \in {"generating", "writing", "sleeping", "waiting"}
  /\ forum.clock < MaxForumClock
  /\ ForumStep([forum EXCEPT !.clock = @ + 1])

\* one run of the forum engine
ForumNext ==
  \/ ForumCheck
  \/ \E text \in BOOLEAN : ForumGenerated(text)
  \/ \E outcome \in {"created", "null", "threw"} : ForumWritten(outcome)
  \/ ForumSlept
  \/ ForumPhaseEnds
  \/ ForumTime

\* -------------------------------------------------------------- agent loop
\* the tasks of runCycle, in the order they are awaited
Tasks == << "status", "project", "forum", "tools", "wallet" >>

\* the position after a task: the next task, or idle after the last one
NextTask(task) ==
  LET i == CHOOSE k \in 1..Len(Tasks) : Tasks[k] = task
  IN IF i < Len(Tasks) THEN Tasks[i + 1] ELSE "idle"

\* a workflow step as logStep stores it
Step(id, type, status) == [ id |-> id, type |-> type, status |-> status ]

\* a task of runCycle has returned: its steps are in state.workflowSteps and
\* runCycle goes on to the next await
TaskReturns(task, outcome, steps) ==
  /\ loop' = [loop EXCEPT !.pc = NextTask(task),
                          !.workflowSteps = @ \o steps,
                          !.last = [ task |-> task, outcome |-> outcome ]]
  /\ UNCHANGED << alert, ws, forum, agentVars, activityLog, storeVars, now >>

\* main: await runCycle(client, solanaAgent), the initial cycle
MainRunsCycle ==
  /\ loop.pc = "main"
  /\ loop' = [loop EXCEPT !.pc = Tasks[1], !.cycles = @ + 1]
  /\ UNCHANGED << alert, ws, forum, agentVars, activityLog, storeVars, now >>

\* slip: engageForum without its catch; the error ends runCycle
engageForumUncaught(outcome) ==
  /\ loop.pc = "forum"
  /\ IF outcome = "threw"
       THEN /\ loop' = [loop EXCEPT !.pc = "idle",
                                    !.last = [ task |-> "forum", outcome |-> outcome ]]
            /\ UNCHANGED << alert, ws, forum, agentVars, activityLog, storeVars, now >>
       ELSE TaskReturns("forum", outcome, << Step("forum", "forum", "success") >>)

\* checkStatus: getStatus answered or threw
checkStatus(outcome) ==
  /\ loop.pc = "status"
  /\ TaskReturns("status", outcome,
       << Step("status", "heartbeat",
               IF outcome = "threw" THEN "failed" ELSE "success") >>)

\* ensureProject: the project exists; or getMyProject threw and createProject
\* answered ("created") or threw as well
ensureProject(outcome) ==
  /\ loop.pc = "project"
  /\ TaskReturns("project", outcome,
       IF outcome = "ok"
         THEN << Step("project-check", "project", "success") >>
         ELSE << Step("project-create", "project",
                      IF outcome = "threw" THEN "failed" ELSE "success") >>)

\* engageForum: searchForum and listPosts answered, or one of them threw
engageForum(outcome) ==
  /\ loop.pc = "forum"
  /\ TaskReturns("forum", outcome,
       << Step("forum", "forum",
               IF outcome = "threw" THEN "failed" ELSE "success") >>)

\* discoverAndPayTools: the tools were listed and the two x402Fetch calls
\* returned; or the tools request was answered with an error status and the
\* task returned without a step ("skipped"); or a fetch, res.json() or
\* x402Fetch threw
discoverAndPayTools(outcome) ==
  /\ loop.pc = "tools"
  /\ TaskReturns("tools", outcome,
       IF outcome = "skipped"
         THEN << >>
         ELSE << Step("tools", "payment",
                      IF outcome = "threw" THEN "failed" ELSE "success") >>)

\* checkWalletStatus: done, or a call outside the balance check threw
checkWalletStatus(outcome) ==
  /\ loop.pc = "wallet"
  /\ TaskReturns("wallet", outcome,
       << Step("wallet", "payment",
               IF outcome = "threw" THEN "failed" ELSE "success") >>)

\* the setInterval callback: runHeartbeat, then runCycle; an error of
\* runHeartbeat is caught and printed and the callback ends
HeartbeatTick(outcome) ==
  /\ loop.pc = "idle"
  /\ loop.ticks < MaxTicks
  /\ outcome = "ok" => loop.cycles < MaxCycles
  /\ loop' = [loop EXCEPT !.ticks = @ + 1,
                          !.pc = IF outcome = "threw" THEN "idle" ELSE Tasks[1],
                          !.cycles = IF outcome = "threw" THEN @ ELSE @ + 1,
                          !.last = [ task |-> "heartbeat", outcome |-> outcome ]]
  /\ UNCHANGED << alert, ws, forum, agentVars, activityLog, storeVars, now >>

\* main and the heartbeat interval
LoopNext ==
  \/ MainRunsCycle
  \/ \E o \in {"ok", "threw"} : checkStatus(o)
  \/ \E o \in {"ok", "created", "threw"} : ensureProject(o)
  \/ \E o \in {"ok", "threw"} : engageForum(o)
  \/ \E o \in {"ok", "skipped", "threw"} : discoverAndPayTools(o)
  \/ \E o \in {"ok", "threw"} : checkWalletStatus(o)
  \/ \E o \in {"ok", "threw"} : HeartbeatTick(o)

\* main: the callback is registered, then the wallet's initialization settles
\* while runCycle pays for a tool
AlertNext ==
  \/ MainOnSpendingAlert
  \/ alert.registered /\ VeridexReady
  \/ alert.registered /\ VeridexFailed
  \/ alert.registered /\ StartOne
  \/ alert.registered /\ \E o \in HandlerOutcomes : x402Paywall("n1", o)
  \/ alert.registered /\ CheckLimits("n1")
  \/ alert.registered /\ \E o \in SignOutcomes : Signed("n1", o)
  \/ alert.registered /\ Retried("n1")
  \/ alert.registered /\ \E d \in BOOLEAN : Notified("n1", d)

Next ==
  NegotiationNext

\* the agent's negotiations against the paywall
Spec == Init /\ [][Next]_vars

\* the merchant's credential store under the human's operations
SpecCred == InitMerchant /\ [][CredentialNext]_vars

\* a negotiation while the human sets and revokes the credential
SpecRevoke == Init /\ [][RevokeNext]_vars

\* a negotiation with a server that may send any challenge
SpecChallenge == Init /\ [][ChallengeNext]_vars

\* the paywall under the requests of other clients
SpecPaywall == InitMerchant /\ [][PaywallNext]_vars

\* the credential store, started on a stored file, under the human's operations
SpecElect == InitLoaded /\ [][ElectNext]_vars

\* the same negotiation under the scheduling the runtime guarantees: once a
\* response has arrived, the continuation of x402Fetch that handles it runs.
\* Nothing makes the server, the signer or the dashboard answer, and x402Fetch
\* sets no timeout on its fetch calls or on signMessage, so no step of the
\* model ends a wait
SpecChallengeFair ==
  /\ Init
  /\ [][ChallengeNext]_vars
  /\ WF_vars(NonPaymentResponse("n1"))
  /\ WF_vars(CheckLimits("n1"))
  /\ WF_vars(Retried("n1"))

\* the activity log around its capacity
SpecLog == InitLog /\ [][LogNext]_vars

\* the agent loop
SpecLoop == InitMerchant /\ [][LoopNext]_vars

\* the forum engine
SpecForum == InitMerchant /\ [][ForumNext]_vars

\* the dashboard's useWebSocket hook
SpecHook == InitMerchant /\ [][HookNext]_vars

\* main from the construction of the agent on
SpecAlert == Init /\ [][AlertNext]_vars

\* dry runs beside a negotiation
SpecDryRun == Init /\ [][DryRunNext]_vars

\* the credential store across restarts of the merchant
SpecRestart == InitMerchant /\ [][RestartNext]_vars

\* ------------------------------------------------------------ properties

\* the spend of negotiation n has been recorded
Recorded(n) == neg[n].pc = "notifying" \/ neg[n].exit = "settled"

\* the stored credential id carries a revocation time
IsRevoked(store, id) ==
  \E i \in 1..Len(store.credentials) :
    store.credentials[i].id = id /\ store.credentials[i].revokedAt # 0

\* more than expiryHours have passed since createdAt
Expired(c) == now > c.createdAt + c.expiryHours

\* C1: the running sum of the settled payments never exceeds the daily limit
C1_DailySumWithinLimit == totalSpentUSD <= config.dailyLimitUSD

\* C2: a negotiation whose price exceeds the per-transaction limit is
\* rejected with no signMessage call and no retry; whatever reached the signer,
\* the retry or the ledger had a price within the limit
C2_PerTxRejectedBeforeSigning ==
  \A n \in Negs :
    /\ ( \/ neg[n].signCalls > 0
         \/ neg[n].retries > 0
         \/ neg[n].pc \in {"signing", "retrying", "retried", "notifying"}
         \/ neg[n].exit = "settled" )
         => neg[n].priceUSD <= config.perTransactionLimitUSD
    /\ (neg[n].pc = "done" /\ neg[n].priceUSD > config.perTransactionLimitUSD)
         => /\ neg[n].exit = "perTxRejected"
            /\ neg[n].signCalls = 0
            /\ neg[n].retries = 0
            /\ neg[n].requests = 1
            /\ ~neg[n].result.paid

C2_Witness ==
  \E n \in Negs :
    /\ neg[n].pc = "done"
    /\ neg[n].exit = "perTxRejected"
    /\ neg[n].priceUSD = 6000
    /\ config.perTransactionLimitUSD = DefaultPerTransactionLimitUSD
    /\ neg[n].signCalls = 0

\* C3: two negotiations checked against the same remaining daily limit of
\* the session, of which only one fits, never both record their spend
C3_ConcurrentNotBothSettled ==
  \A n, m \in Negs :
    ( /\ n # m
      /\ Recorded(n) /\ Recorded(m)
      /\ neg[n].sessionStatus /\ neg[m].sessionStatus
      /\ neg[n].dailyRemaining = neg[m].dailyRemaining )
      => neg[n].priceUSD + neg[m].priceUSD <= neg[n].dailyRemaining

\* C4: no credential operation makes a revoked credential's id the active one
C4_RevokedNeverActiveAgain ==
  [][ \A id \in CredIds :
        IsRevoked(credStore, id) => credStore'.activeId # id ]_vars

\* C5: a retry answered after the credential the negotiation was checked
\* under has been revoked is not answered with success
C5_RevokedInFlightFails ==
  [][ \A n \in Negs :
        ( /\ neg[n].pc = "retrying"
          /\ neg[n].cred # NoStr
          /\ IsRevoked(credStore, neg[n].cred)
          /\ neg'[n].pc = "retried" )
          => neg'[n].res.status # 200 ]_vars

\* C6: signMessage is called only while the store has an active, non-revoked,
\* non-expired credential whose limits admit the price
C6_SignedOnlyUnderUsableCredential ==
  [][ \A n \in Negs :
        neg'[n].signCalls > neg[n].signCalls
          => LET i == getActiveCredentials(credStore)
             IN /\ i # 0
                /\ ~Expired(credStore.credentials[i])
                /\ neg'[n].priceUSD <= credStore.credentials[i].perTransactionLimitUSD
                /\ neg'[n].priceUSD <= credStore.credentials[i].dailyLimitUSD ]_vars

\* C7: a retry answered with any status but 402 settles: the price is
\* recorded once and the call goes on to return success
C7_NonRejectedRetrySettles ==
  [][ \A n \in Negs :
        (neg[n].pc = "retried" /\ neg[n].res.status # 402 /\ neg'[n] # neg[n])
          => /\ neg'[n].pc = "notifying"
             /\ totalSpentUSD' = totalSpentUSD + neg[n].priceUSD ]_vars

\* C8: the recorded spend changes only in the step that settles a retry, a
\* call that settled returns paid, and every other return leaves it unchanged
C8_SpendChangesOnlyOnSettle ==
  [][ /\ (totalSpentUSD' # totalSpentUSD \/ session' # session)
           => \E n \in Negs :
                /\ neg[n].pc = "retried" /\ neg'[n].pc = "notifying"
                /\ neg[n].res.status # 402
                /\ totalSpentUSD' = totalSpentUSD + neg[n].priceUSD
      /\ \A n \in Negs :
           (neg[n].pc # "done" /\ neg'[n].pc = "done" /\ neg'[n].exit # "settled")
             => /\ totalSpentUSD' = totalSpentUSD
                /\ session' = session
                /\ ~neg'[n].result.paid
      /\ \A n \in Negs :
           (neg[n].pc = "notifying" /\ neg'[n].pc # "notifying")
             => (neg'[n].exit = "settled" /\ neg'[n].result.paid) ]_vars

C8_Witness ==
  /\ totalSpentUSD = 0
  /\ \E n \in Negs : neg[n].pc = "done" /\ neg[n].exit = "failed" /\ neg[n].retries = 1
  /\ \E n \in Negs : neg[n].pc = "done" /\ neg[n].exit = "perTxRejected"

\* C9: a negotiation requests the resource at most twice, the initial
\* request and one retry, and a retry answered 402 ends it as a failure with no
\* further request and no further signing
C9_AtMostOneRetry ==
  /\ [] \A n \in Negs :
          /\ neg[n].requests <= 2
          /\ neg[n].retries <= 1
          /\ neg[n].pc # "idle" => neg[n].requests = 1 + neg[n].retries
  /\ [][ \A n \in Negs :
           (neg[n].pc = "retried" /\ neg[n].res.status = 402 /\ neg'[n] # neg[n])
             => /\ neg'[n].pc = "done"
                /\ neg'[n].exit = "failed"
                /\ ~neg'[n].result.success
                /\ ~neg'[n].result.paid
                /\ neg'[n].requests = neg[n].requests
                /\ neg'[n].signCalls = neg[n].signCalls
                /\ totalSpentUSD' = totalSpentUSD ]_vars

C9_Witness ==
  \E n \in Negs :
    neg[n].pc = "retried" /\ neg[n].res.status = 402 /\ neg[n].requests = 2

\* C10: signMessage is called at most once per negotiation, and when that
\* call fails the negotiation returns a failure with no retry sent and no spend
\* recorded
C10_OneSigningAttempt ==
  /\ [] \A n \in Negs :
          /\ neg[n].signCalls <= 1
          /\ (neg[n].pc = "done" /\ neg[n].signCalls = 1 /\ neg[n].retries = 0)
               => (neg[n].exit = "failed" /\ ~neg[n].result.success)
  /\ [][ \A n \in Negs :
           (neg[n].pc = "signing" /\ neg'[n].pc \notin {"signing", "retrying"})
             => /\ neg'[n].pc = "done"
                /\ neg'[n].exit = "failed"
                /\ ~neg'[n].result.paid
                /\ neg'[n].retries = 0
                /\ neg'[n].requests = 1
                /\ totalSpentUSD' = totalSpentUSD
                /\ session' = session ]_vars

C10_Witness ==
  \E n \in Negs :
    /\ neg[n].pc = "done" /\ neg[n].exit = "failed"
    /\ neg[n].signCalls = 1 /\ neg[n].retries = 0
    /\ totalSpentUSD = 0

\* id is the first stored credential that carries no revocation time, or there
\* is none and id is null
IsFirstLive(store, id) ==
  LET creds == store.credentials
  IN IF \A i \in 1..Len(creds) : creds[i].revokedAt # 0
       THEN id = NoStr
     ELSE \E i \in 1..Len(creds) :
            /\ creds[i].id = id
            /\ creds[i].revokedAt = 0
            /\ \A j \in 1..(i - 1) : creds[j].revokedAt # 0

\* id is the stored non-revoked credential with the greatest createdAt, or there
\* is none and id is null
IsNewestLive(store, id) ==
  LET creds == store.credentials
  IN IF \A i \in 1..Len(creds) : creds[i].revokedAt # 0
       THEN id = NoStr
     ELSE \E i \in 1..Len(creds) :
            /\ creds[i].id = id
            /\ creds[i].revokedAt = 0
            /\ \A j \in 1..Len(creds) :
                 creds[j].revokedAt = 0 => creds[j].createdAt <= creds[i].createdAt

\* the step is DELETE /agent/credentials answered 200
RevokedActiveStep ==
  credOps' # credOps /\ reply'.route = "revokeActive" /\ reply'.status = 200

\* C16: after revokeActive the new active credential is the non-revoked stored
\* credential with the greatest createdAt, or none when all are revoked
C16_ElectsNewest ==
  [][ RevokedActiveStep => IsNewestLive(credStore', credStore'.activeId) ]_vars

\* the step is DELETE /agent/credentials/:id
RevokeStep ==
  credOps' # credOps /\ reply'.route = "revoke"

\* C17: revoke(id) of a stored credential stamps it revoked and leaves every
\* other credential as it was; the active id stays when another credential was
\* active, and otherwise is elected as revokeActive elects it, the first
\* non-revoked credential in store order or none
C17_RevokeNamedCredential ==
  [][ /\ RevokeStep =>
           LET id == reply'.id
               old == credStore.credentials
               new == credStore'.credentials
           IN /\ reply'.status = 200 <=> \E i \in 1..Len(old) : old[i].id = id
              /\ reply'.status # 200 => (credStore' = credStore /\ credFile' = credFile)
              /\ reply'.status = 200 =>
                   /\ Len(new) = Len(old)
                   /\ \A i \in 1..Len(old) :
                        new[i] = IF old[i].id = id
                                   THEN [old[i] EXCEPT !.revokedAt = now]
                                 ELSE old[i]
                   /\ IsRevoked(credStore', id)
                   /\ credStore.activeId # id => credStore'.activeId = credStore.activeId
                   /\ credStore.activeId = id =>
                        IsFirstLive(credStore', credStore'.activeId)
                   /\ credFile' = credStore'
      /\ RevokedActiveStep => IsFirstLive(credStore', credStore'.activeId) ]_vars

\* c3 was set, which made it active, and then revoked by id: c1 is elected while
\* c2 is live too
C17_Witness ==
  /\ credOps = 2
  /\ reply.route = "revoke" /\ reply.status = 200 /\ reply.id = "c3"
  /\ IsRevoked(credStore, "c3")
  /\ credStore.activeId = "c1"
  /\ ~IsRevoked(credStore, "c2")

\* the step is PUT /agent/credentials/:id/activate
ActivateStep ==
  credOps' # credOps /\ reply'.route = "activate"

\* C18: activate(id) of a revoked credential answers 400 and leaves the store,
\* its active id and the file as they were; of a stored credential that is not
\* revoked it answers 200, makes it the active one and changes nothing else
C18_ActivateRefusesRevoked ==
  [][ ActivateStep =>
        LET id == reply'.id
            stored == \E i \in 1..Len(credStore.credentials) :
                        credStore.credentials[i].id = id
        IN /\ IsRevoked(credStore, id)
                => /\ reply'.status = 400
                   /\ credStore' = credStore
                   /\ credFile' = credFile
           /\ (stored /\ ~IsRevoked(credStore, id))
                => /\ reply'.status = 200
                   /\ credStore'.activeId = id
                   /\ credStore'.credentials = credStore.credentials
                   /\ credFile' = credStore'
           /\ activityLog' = activityLog ]_vars

\* a revoked credential was asked to be activated and refused
C18_Witness ==
  /\ reply.route = "activate" /\ reply.status = 400
  /\ IsRevoked(credStore, reply.id)
  /\ credStore.activeId # reply.id
  /\ credFile = credStore

\* C19: a POST /agent/credentials that carries a wallet identifier and a session
\* public key answers 200, and afterwards the active credential getActive
\* returns has that identifier and the submitted limits, the identifier being
\* new (appended) or already stored (replaced in place)
C19_SetThenGetActive ==
  [][ \A id \in CredIds, l \in SessionInputs :
        SetCredentials(id, "pk", l, TRUE)
          => LET i == getActiveCredentials(credStore')
                 was == FindIndex(credStore.credentials, id)
             IN /\ reply'.status = 200
                /\ i # 0
                /\ credStore'.credentials[i].id = id
                /\ credStore'.credentials[i].dailyLimitUSD = l.dailyLimitUSD
                /\ credStore'.credentials[i].perTransactionLimitUSD
                     = l.perTransactionLimitUSD
                /\ credStore'.credentials[i].expiryHours = l.expiryHours
                /\ i = IF was = 0 THEN Len(credStore.credentials) + 1 ELSE was
                /\ Len(credStore'.credentials)
                     = Len(credStore.credentials) + (IF was = 0 THEN 1 ELSE 0) ]_vars

\* one identifier was set twice, the second time with the tight limits, and
\* getActive returns it with them
C19_Witness ==
  /\ reply.route = "set" /\ reply.status = 200
  /\ Len(credStore.credentials) = 1
  /\ Len(activityLog) = 2
  /\ activityLog[1].action = "credentials_set"
  /\ activityLog[2].action = "credentials_set"
  /\ activityLog[2].amountUSD = DefaultDailyLimitUSD
  /\ getActiveCredentials(credStore) = 1
  /\ credStore.credentials[1].id = reply.id
  /\ credStore.credentials[1].dailyLimitUSD = 8

\* C20: a POST /agent/credentials without wallet identifier or without session
\* public key answers 400 and leaves the credentials, the active id, the file
\* and the activity log as they were
C20_SetRejectsMissingInput ==
  [][ \A id \in CredIds \cup {NoStr}, pk \in {"pk", NoStr}, l \in SessionInputs :
        (SetCredentials(id, pk, l, TRUE) /\ (id = NoStr \/ pk = NoStr))
          => /\ reply'.status = 400
             /\ credStore' = credStore
             /\ credFile' = credFile
             /\ activityLog' = activityLog ]_vars

\* a credential is stored, and a later POST lacking a field was answered 400
C20_Witness ==
  /\ reply.route = "set" /\ reply.status = 400
  /\ credOps = 2
  /\ Len(credStore.credentials) = 1
  /\ credStore.activeId = credStore.credentials[1].id
  /\ credFile = credStore
  /\ Len(activityLog) = 1

\* the step is x402Paywall handling the request of another client
PaywallStep ==
  credOps' # credOps /\ reply'.route = "paywall"

\* the request carries no proof header
NoProofHeader(h) ==
  /\ h.paymentSignature = NoStr /\ h.xPaymentSignature = NoStr
  /\ h.ucpCredential = NoStr /\ h.acpToken = NoStr

\* C12: every request x402Paywall handles puts exactly one new entry at the
\* head of the activity log, be the request admitted or challenged
C12_PaywallLogsOneEntry ==
  [][ PaywallStep
        => /\ Len(activityLog') = Len(activityLog) + 1
           /\ Tail(activityLog') = activityLog
           /\ activityLog'[1].amountUSD = reply'.priceUSD
           /\ activityLog'[1].type = IF reply'.next THEN "payment" ELSE "tool_call"
           /\ reply'.next <=> ~NoProofHeader(reply'.headers) ]_vars

\* one request was admitted and then one was challenged: two entries
C12_Witness ==
  /\ Len(activityLog) = 2
  /\ activityLog[1].type = "tool_call"
  /\ activityLog[2].type = "payment"
  /\ reply.route = "paywall" /\ reply.status = 402

\* C13: a request with a proof header is admitted, the route's handler answers
\* and no 402 is sent, and one payment entry for priceUSD is logged whose
\* protocol is x402 with a payment signature header, else ucp with the UCP
\* credential header, else acp
C13_ProofAdmitted ==
  [][ (PaywallStep /\ ~NoProofHeader(reply'.headers))
        => /\ reply'.next
           /\ reply'.status # 402
           /\ \E o \in HandlerOutcomes : reply'.body = Handled(o)
           /\ reply'.paymentRequired = << >>
           /\ Tail(activityLog') = activityLog
           /\ activityLog'[1].type = "payment"
           /\ activityLog'[1].amountUSD = reply'.priceUSD
           /\ activityLog'[1].protocol =
                IF \/ reply'.headers.paymentSignature # NoStr
                   \/ reply'.headers.xPaymentSignature # NoStr
                  THEN "x402"
                ELSE IF reply'.headers.ucpCredential # NoStr THEN "ucp" ELSE "acp"
      ]_vars

\* a request carrying a UCP credential and an ACP token, no payment signature,
\* was admitted to the $0.005 tool and logged as ucp
C13_Witness ==
  /\ reply.route = "paywall" /\ reply.next /\ reply.status = 200
  /\ reply.headers.ucpCredential # NoStr /\ reply.headers.acpToken # NoStr
  /\ Len(activityLog) > 0
  /\ activityLog[1].type = "payment"
  /\ activityLog[1].protocol = "ucp"
  /\ activityLog[1].amountUSD = 5

\* the 402 whose PAYMENT-REQUIRED header decodes to the text of its body, which
\* asks priceUSD x 10^6 base units for the merchant's recipient
IsChallengeFor(r, p) ==
  /\ r.status = 402
  /\ ~r.next
  /\ Base64Decode(r.paymentRequired) = Stringify(r.body)
  /\ r.body.shape = "paymentRequirements"
  /\ r.body.req.maxAmountRequired = p * BaseUnitsPerMilliUSD
  /\ r.body.req.payTo = "RECIPIENT"

C15_NoPaywallForZeroPrice ==
  \A i \in 1..Len(activityLog) :
    activityLog[i].type \in {"payment", "tool_call"} => activityLog[i].amountUSD > 0

\* C11: a negotiation whose 402 challenge lacks payTo or maxAmountRequired
\* never reaches the signer and never sends a retry
C11_MalformedNeverSigned ==
  \A n \in Negs :
    (neg[n].pc \in {"signing", "retrying"} /\ neg[n].res.status = 402)
      => LET req == ParseRequirement(neg[n].res)
         IN req.payTo # NoStr /\ req.maxAmountRequired # NoNum

\* the limits of the credential getActiveCredentials returns, none when it
\* returns null
ActiveLimits(store) ==
  LET i == getActiveCredentials(store)
  IN IF i = 0 THEN << >>
     ELSE << store.credentials[i].id, store.credentials[i].dailyLimitUSD,
             store.credentials[i].perTransactionLimitUSD >>

\* C21: a restart of the merchant reloads the store it held before: the same
\* credentials, the same active id, and so the same active credential with the
\* same limits
C21_RestartReloadsStore ==
  [][Restart => /\ credStore' = credStore
                /\ ActiveLimits(credStore') = ActiveLimits(credStore)]_vars

\* caller n's x402DryRun takes a step: the call is made, or its answer arrives
DryRunStep(n) ==
  \/ neg[n].pc # "dryRun" /\ neg'[n].pc = "dryRun"
  \/ neg[n].pc = "dryRun" /\ neg'[n].pc # "dryRun"

\* C22: a step of x402DryRun changes neither the spending ledger
\* (totalSpentUSD, the session's spend) nor the credential store, on the
\* merchant or on disk; the call checks no limit, asks for no signature and
\* sends no request or retry to the resource, and ends with the proxy's answer
C22_DryRunChangesNothing ==
  [][\A n \in Negs :
       DryRunStep(n) =>
         /\ UNCHANGED << totalSpentUSD, session, credStore, credFile >>
         /\ neg'[n].signCalls = 0 /\ neg'[n].requests = 0 /\ neg'[n].retries = 0
         /\ neg'[n].pc \in {"dryRun", "done"}
         /\ neg'[n].exit \in {"none", "dryRun", "threw"}
         /\ \A m \in Negs \ {n} : neg'[m] = neg[m]]_vars

\* a dry run has returned its preview after a payment was recorded
C22_Witness ==
  /\ neg["n2"].pc = "done" /\ neg["n2"].exit = "dryRun"
  /\ neg["n2"].result.status = 402
  /\ neg["n1"].exit = "settled"
  /\ totalSpentUSD = 5 /\ session.dailySpentUSD = 5

\* the activity log holds a payment notification of the agent
NotificationLogged ==
  \E i \in 1..Len(activityLog) : activityLog[i].agent = "veridex-solana-agent"

\* C23: when the notification sent after a settled payment does not reach the
\* merchant (the activity log is left as it was), x402Fetch still returns
\* success with paid = true, and the recorded spend stays what it was
C23_NotificationFailureHarmless ==
  [][\A n \in Negs :
       (neg[n].pc = "notifying" /\ neg'[n].pc # "notifying"
          /\ activityLog' = activityLog)
         => /\ neg'[n].pc = "done" /\ neg'[n].exit = "settled"
            /\ neg'[n].result.success /\ neg'[n].result.paid
            /\ neg'[n].result.attempts = 2
            /\ UNCHANGED << totalSpentUSD, session >>]_vars

\* a payment has settled and been recorded although no notification of the
\* agent ever reached the merchant
C23_Witness ==
  /\ neg["n1"].pc = "done" /\ neg["n1"].exit = "settled"
  /\ neg["n1"].result.paid
  /\ totalSpentUSD = 5
  /\ ~NotificationLogged

\* the ways a negotiation that met a 402 ends without payment
FailureExits == {"perTxRejected", "dailyRejected", "failed"}

\* C24: negotiations that ended on different failures (over the
\* per-transaction limit, over the daily limit, signing failed or retry
\* rejected) return different outcomes to their callers
C24_RejectionsDistinguishable ==
  \A n, m \in Negs :
    ( /\ neg[n].pc = "done" /\ neg[m].pc = "done"
      /\ neg[n].exit \in FailureExits /\ neg[m].exit \in FailureExits
      /\ neg[n].exit # neg[m].exit )
      => neg[n].result # neg[m].result

\* C25: x402Fetch never throws on a 402: every failure of the negotiation is
\* returned as a result
C25_NeverThrows ==
  \A n \in Negs :
    neg[n].pc = "done" => /\ neg[n].exit # "threw"
                          /\ neg[n].result # NoResult

\* C26: a negotiation that has started eventually ends, whether or not the
\* server and the signer answer
C26_NegotiationEnds ==
  \A n \in Negs : (neg[n].pc \notin {"idle", "done"}) ~> (neg[n].pc = "done")

\* POST /agent/credentials has stored a credential whose identifier the store
\* did not hold
SetNewStep ==
  /\ credOps' # credOps
  /\ reply'.route = "set" /\ reply'.status = 200
  /\ FindIndex(credStore.credentials, reply'.id) = 0

\* C27: setting a credential with a new identifier appends it and makes it
\* active, leaving every stored credential in its place with all its fields
\* (limits, createdAt, revokedAt) as they were; and no step ever removes a
\* credential from the store
C27_SetSupersedesWithoutRemoving ==
  [][LET old == credStore.credentials
         new == credStore'.credentials
     IN /\ SetNewStep =>
             /\ Len(new) = Len(old) + 1
             /\ \A i \in 1..Len(old) : new[i] = old[i]
             /\ new[Len(new)].id = reply'.id
             /\ credStore'.activeId = reply'.id
        /\ Len(new) >= Len(old)
        /\ \A i \in 1..Len(old) : new[i].id = old[i].id]_vars

\* a credential with a new identifier has just been set while the store held
\* a revoked one, which is still there
C27_Witness ==
  /\ reply.route = "set" /\ reply.status = 200
  /\ Len(credStore.credentials) = 2
  /\ credStore.credentials[1].id # reply.id
  /\ credStore.credentials[1].revokedAt # 0
  /\ credStore.credentials[2].id = reply.id
  /\ credStore.activeId = reply.id

\* the order of the steps of x402Fetch, as pairs of positions; from "done"
\* (and "idle") only a new call leaves
StepOrder ==
  { << "idle", "fetching" >>, << "done", "fetching" >>,
    << "fetching", "responded" >>,
    << "responded", "signing" >>, << "responded", "done" >>,
    << "signing", "retrying" >>, << "signing", "done" >>,
    << "retrying", "retried" >>,
    << "retried", "notifying" >>, << "retried", "done" >>,
    << "notifying", "done" >> }

\* C28: a negotiation moves only along request, decode and limit check, sign,
\* retry, record spend: the signer is called only from the limit check and
\* only with a price within both limits; the retry is sent only when the
\* signer has answered; spend is recorded only on the answer of a retry; and
\* a negotiation that has ended changes no more until its caller starts a
\* new one
C28_StepsInOrder ==
  [][/\ \A n \in Negs :
          /\ neg'[n].pc # neg[n].pc => << neg[n].pc, neg'[n].pc >> \in StepOrder
          /\ (neg'[n].pc # "fetching" /\ neg'[n].signCalls # neg[n].signCalls)
               => /\ neg[n].pc = "responded" /\ neg'[n].pc = "signing"
                  /\ neg'[n].signCalls = neg[n].signCalls + 1
                  /\ neg[n].retries = 0
                  /\ neg'[n].priceUSD <= config.perTransactionLimitUSD
                  /\ neg'[n].priceUSD <= neg'[n].dailyRemaining
          /\ (neg'[n].pc # "fetching" /\ neg'[n].retries # neg[n].retries)
               => /\ neg[n].pc = "signing" /\ neg'[n].pc = "retrying"
                  /\ neg[n].signCalls = 1
                  /\ neg'[n].retries = neg[n].retries + 1
          /\ neg[n].pc = "done"
               => \/ neg'[n] = neg[n]
                  \/ neg'[n] = [IdleNeg EXCEPT !.pc = "fetching",
                                               !.route = neg'[n].route,
                                               !.requests = 1]
     /\ totalSpentUSD' # totalSpentUSD
          => \E n \in Negs :
               /\ neg[n].pc = "retried" /\ neg'[n].pc = "notifying"
               /\ neg[n].res.status = 200
               /\ neg[n].signCalls = 1 /\ neg[n].retries = 1
               /\ totalSpentUSD' = totalSpentUSD + neg[n].priceUSD]_vars

\* a negotiation has gone through every step: one request, one call of the
\* signer, one retry, the spend recorded, the result returned
C28_Witness ==
  \E n \in Negs :
    /\ neg[n].pc = "done" /\ neg[n].exit = "settled"
    /\ neg[n].requests = 2 /\ neg[n].signCalls = 1 /\ neg[n].retries = 1
    /\ neg[n].priceUSD = 5
    /\ totalSpentUSD >= 5

\* the members x402Paywall puts into the requirement for a tool of this price
GateFields(priceUSD) ==
  LET req == PaywallRequirement(priceUSD, AgentUrl)
  IN [ priceUSD |-> req.priceUSD, recipient |-> req.payTo,
       network |-> req.network, asset |-> req.asset,
       maxAmount |-> req.maxAmountRequired ]

\* C29: what the client extracts from the 402 body it received (price,
\* maxAmountRequired, payTo, network, asset) equals what the gate put into the
\* requirement; and the same text with the requirement under accepts[]
\* instead of paymentRequirements[] decodes to the same fields
C29_RequirementRoundTrip ==
  \A n \in Negs :
    (neg[n].pc = "responded" /\ neg[n].res.status = 402 /\ neg[n].route \in Prices)
      => /\ neg[n].res = Challenge(neg[n].route, AgentUrl)
         /\ Extract(neg[n].res) = GateFields(neg[n].route)
         /\ LET accepts == [Challenge(neg[n].route, AgentUrl)
                              EXCEPT !.shape = "accepts"]
            IN /\ JsonParse(Stringify(accepts)) = accepts
               /\ Extract(JsonParse(Stringify(accepts))) = GateFields(neg[n].route)

\* the client holds the decoded challenge of the $0.005 tool
C29_Witness ==
  \E n \in Negs :
    /\ neg[n].pc = "responded" /\ neg[n].res.status = 402
    /\ neg[n].res.shape = "paymentRequirements"
    /\ neg[n].res.req.maxAmountRequired = 5000
    /\ neg[n].res.req.priceUSD = 5
    /\ neg[n].res.req.payTo = "RECIPIENT"

\* C30: the price the limit checks used, and the signer is asked for, is the
\* requirement's USD hint whenever the hint is present, a hint of 0 included,
\* and maxAmountRequired / 10^6 otherwise
C30_PriceFromHintWhenPresent ==
  \A n \in Negs :
    neg[n].pc = "signing" =>
      LET req == ParseRequirement(neg[n].res)
      IN neg[n].priceUSD =
           IF req.priceUSD # NoNum THEN req.priceUSD
           ELSE IF req.maxAmountRequired # NoNum
             THEN AmountToUSD(req.maxAmountRequired)
           ELSE 0

\* C31: an active id that is not null names a credential that is stored and
\* not revoked, so getActiveCredentials returns null only when the active id
\* is null
C31_ActiveIdNamesLiveCredential ==
  /\ credStore.activeId # NoStr =>
       \E i \in 1..Len(credStore.credentials) :
         /\ credStore.credentials[i].id = credStore.activeId
         /\ credStore.credentials[i].revokedAt = 0
  /\ getActiveCredentials(credStore) = 0 <=> credStore.activeId = NoStr

\* the active credential c2 has been revoked by name, and the active id has
\* moved to a credential that is not revoked
C31_Witness ==
  /\ reply.route = "revoke" /\ reply.status = 200 /\ reply.id = "c2"
  /\ IsRevoked(credStore, "c2")
  /\ credStore.activeId \notin {NoStr, "c2"}
  /\ getActiveCredentials(credStore) # 0

\* POST /agent/credentials has stored a credential whose identifier the store
\* already held
SetStoredStep ==
  /\ credOps' # credOps
  /\ reply'.route = "set" /\ reply'.status = 200
  /\ FindIndex(credStore.credentials, reply'.id) # 0

\* C32: no two stored credentials share an id; setting credentials for an id
\* that is stored puts the new record at that credential's place, leaving the
\* number of credentials and all the others as they were
C32_NoDuplicateIds ==
  /\ [](\A i, j \in 1..Len(credStore.credentials) :
          credStore.credentials[i].id = credStore.credentials[j].id => i = j)
  /\ [][SetStoredStep =>
          LET old == credStore.credentials
              new == credStore'.credentials
              at == FindIndex(old, reply'.id)
          IN /\ Len(new) = Len(old)
             /\ new[at].id = reply'.id
             /\ new[at].createdAt = now /\ new[at].revokedAt = 0
             /\ \A i \in 1..Len(old) : i # at => new[i] = old[i]]_vars

\* the one stored credential has been set a second time, an hour later and
\* with other limits
C32_Witness ==
  /\ reply.route = "set" /\ reply.status = 200
  /\ Len(credStore.credentials) = 1
  /\ credStore.credentials[1].id = reply.id
  /\ credStore.credentials[1].createdAt = 2
  /\ credStore.credentials[1].dailyLimitUSD = 8
  /\ Len(activityLog) = 2

\* C33: while the signer is asked, the amount of the intent it is asked to
\* sign, maxAmountRequired / 10^6, is the USD amount that passed the limit
\* checks
C33_SignedAmountIsCheckedAmount ==
  \A n \in Negs :
    neg[n].pc = "signing" =>
      LET intent == PaymentIntent(neg[n].res, neg[n].priceUSD)
      IN /\ intent.amountUSD = neg[n].priceUSD
         /\ AmountToUSD(intent.amount) = neg[n].priceUSD
         /\ AmountToUSD(intent.amount) <= config.perTransactionLimitUSD

\* GET /api/v1/stats: totalPayments, the number of entries of type payment
RECURSIVE TotalPayments(_)
TotalPayments(log) ==
  IF Len(log) = 0 THEN 0
  ELSE (IF log[1].type = "payment" THEN 1 ELSE 0) + TotalPayments(Tail(log))

\* GET /api/v1/stats: totalRevenue, the sum of their amountUSD
RECURSIVE TotalRevenue(_)
TotalRevenue(log) ==
  IF Len(log) = 0 THEN 0
  ELSE (IF log[1].type = "payment" /\ log[1].amountUSD # NoNum
          THEN log[1].amountUSD ELSE 0) + TotalRevenue(Tail(log))

\* C34: once every negotiation has returned, the merchant's log holds one
\* payment entry for each settled one: totalRevenue is the sum of the settled
\* prices, and a negotiation that settled stands for one entry in
\* totalPayments
C34_OnePaymentEntryPerSettlement ==
  (\A n \in Negs : neg[n].pc \in {"idle", "done"}) =>
    /\ TotalRevenue(activityLog) = totalSpentUSD
    /\ TotalPayments(activityLog) <= started
    /\ (totalSpentUSD = 0 => TotalPayments(activityLog) = 0)

\* a request that logs an event has been handled: a paywall request, or a
\* posted entry that was not refused
LoggedStep ==
  /\ credOps' # credOps
  /\ ~(reply'.route = "activity" /\ reply'.status = 400)

\* C35: the activity log never holds more than MAX_LOG entries and is ordered
\* newest first; an event puts its entry, stamped with the present time, in
\* front of the entries that were there, which keep their order and content,
\* and when the log was full, the last of them, the oldest, is the one that
\* goes
C35_LogBoundedNewestFirst ==
  /\ [](Len(activityLog) <= MAX_LOG)
  /\ [](\A i \in 1..(Len(activityLog) - 1) :
          activityLog[i].timestamp >= activityLog[i + 1].timestamp)
  /\ [][IF LoggedStep
          THEN LET kept == IF Len(activityLog) = MAX_LOG
                             THEN SubSeq(activityLog, 1, MAX_LOG - 1)
                           ELSE activityLog
               IN /\ activityLog' = << activityLog'[1] >> \o kept
                  /\ activityLog'[1].timestamp = now
        ELSE activityLog' = activityLog]_vars

\* two events have been logged on the log that held MAX_LOG - 1 entries: the
\* log is full, its oldest entry is gone and the second oldest is now last
C35_Witness ==
  /\ Len(activityLog) = MAX_LOG
  /\ activityLog[MAX_LOG].amountUSD = 2
  /\ activityLog[MAX_LOG].timestamp = 0
  /\ activityLog[1].timestamp = 2
  /\ activityLog[2].timestamp = 1
  /\ credOps = 2

\* C36: a spending-alert callback registered right after the agent is
\* constructed, as main does, is attached to the Veridex wallet once that
\* wallet has finished its initialization
C36_CallbackAttachedOnceReady ==
  (alert.registered /\ veridexWallet) => alert.attached

\* C37: once the cleanup of useWebSocket has run, no reconnect timer is pending
\* and no new WebSocket is opened
C37_QuietAfterUnmount ==
  /\ [](ws.phase = "unmounted" => ws.timer = 0)
  /\ [][ws.phase = "unmounted" => ws'.opens = ws.opens]_vars

\* C38: the writes recorded in the current window never exceed 28; a write is
\* recorded only after checkWriteBudget returned true in that window; the
\* counter is reset, and a window begun, only when more than one hour has
\* passed since the window's start
C38_WritesWithinBudget ==
  /\ [](forum.writesThisHour <= WRITE_BUDGET)
  /\ [](forum.pc = "writing" => forum.checked = forum.hourStart)
  /\ [][forum'.writesThisHour > forum.writesThisHour =>
          /\ forum'.writesThisHour = forum.writesThisHour + 1
          /\ forum.checked = forum.hourStart
          /\ forum'.hourStart = forum.hourStart]_vars
  /\ [][(forum'.hourStart # forum.hourStart
          \/ forum'.writesThisHour < forum.writesThisHour) =>
          /\ forum.clock - forum.hourStart > HOUR_MS
          /\ forum'.writesThisHour = 0
          /\ forum'.hourStart = forum.clock]_vars

C38_Witness ==
  /\ forum.hourStart > 0
  /\ forum.writesThisHour = 2
  /\ forum.pc = "sleeping"

\* C39: a task of runCycle that fails logs one failed workflow step and the
\* task after it runs; a heartbeat tick that ended in an error leaves the next
\* tick free to run
C39_FailureStopsNothing ==
  /\ [][loop.pc \in {Tasks[k] : k \in 1..Len(Tasks)} /\ loop'.pc # loop.pc =>
          /\ loop'.pc = NextTask(loop.pc)
          /\ loop'.last.task = loop.pc
          /\ loop'.last.outcome = "threw" =>
                /\ Len(loop'.workflowSteps) = Len(loop.workflowSteps) + 1
                /\ SubSeq(loop'.workflowSteps, 1, Len(loop.workflowSteps))
                     = loop.workflowSteps
                /\ loop'.workflowSteps[Len(loop'.workflowSteps)].status = "failed"]_vars
  /\ [](loop.pc = "idle" /\ loop.ticks < MaxTicks /\ loop.cycles < MaxCycles =>
          ENABLED HeartbeatTick("ok") /\ ENABLED HeartbeatTick("threw"))

C39_Witness ==
  /\ loop.ticks = 2
  /\ loop.cycles = 2
  /\ loop.last.task = "wallet"
  /\ loop.pc = "idle"
  /\ Len(loop.workflowSteps) = 10
  /\ loop.workflowSteps[3] = Step("forum", "forum", "failed")
  /\ loop.workflowSteps[4] = Step("tools", "payment", "failed")
  /\ loop.workflowSteps[10].status = "success"

====
